---- MODULE Spec2Model ----
(***************************************************************************)
(* Model of the strategy backtester: the bar-by-bar simulator of           *)
(* backend/app/backtest.py, the condition evaluator of                     *)
(* backend/app/apply_signals.py, the summary of                            *)
(* backend/app/performance_summary.py and the parameter sweep of           *)
(* backend/app/optimize.py.                                                *)
(*                                                                         *)
(* Numbers.  Prices and fractions are fixed-point integers in hundredths:  *)
(* a price of 100.00 is 10000, tp = 5 is the percentage 5, and the         *)
(* fraction tp/100 = 0.05 is 5.  Input prices are whole units, so every    *)
(* product price * (1 +- p/100) is exact.  Floating-point rounding is not  *)
(* modelled.                                                               *)
(***************************************************************************)
EXTENDS Integers, Sequences, FiniteSets, TLC

VARIABLES
    pc,                 \* position of backtest() / of the surrounding request
    n,                  \* len(df)
    i,                  \* loop index of backtest()
    row,                \* df.iloc[i]
    next_name,          \* df.iloc[i + 1].name
    no_signals,         \* value of the test of backtest.py:120 on df
    tp, sl,             \* arguments of backtest()
    in_buy_position, current_buy_trade, buy_trades,
    in_sell_position, current_sell_trade, sell_trades,
    trades,             \* the table backtest() returned
    performance,        \* the summary computed from it
    epc,                \* position of the condition evaluator
    df,                 \* the bar table of the evaluator: column name -> column
    num_buy, num_sell,  \* conditions of each list not yet evaluated
    condition,          \* loop variable of apply_*_conditions
    eval_error,         \* the exception raised by the evaluator, if any
    opc,                \* position of optimize()
    param_ranges,       \* argument of optimize(): list of <<key, values>>
    use_parallel,       \* argument of optimize()
    all_combinations,   \* optimize.py:199
    next_combo,         \* position of the loop of optimize.py:226
    waiting,            \* futures as_completed has not yielded yet
    outcome,            \* per combination: << >>, or <<what its run gave>>
    results,            \* optimize.py:202
    origin,             \* per row of results, the combination it came from
    errors,             \* combinations whose error was printed
    results_flat_df,    \* the table optimize() returns
    base,               \* the table and the condition lists passed to optimize()
    spc,                \* position of a call of calculate_performance_summary
    trades_arg,         \* its argument trades_df (the caller's table)
    balance_arg,        \* its argument initial_balance
    risk_arg,           \* its argument risk_per_trade, in hundredths
    summary,            \* what the call returned or raised
    fpc,                \* position of one call of apply_buy/sell_conditions
    cond_table,         \* its argument df, changed in place
    cond_name,          \* the conditions column it accumulates into
    cond_list,          \* its argument conditions
    cond_error,         \* the exception it raised, if any
    rpc,                \* position of a pair of runs on one request
    request,            \* the bar table and the parameters of the first run
    replay,             \* those of the second run
    responses           \* what the runs made so far returned, in order

btVars == <<pc, n, i, row, next_name, no_signals, tp, sl,
            in_buy_position, current_buy_trade, buy_trades,
            in_sell_position, current_sell_trade, sell_trades,
            trades, performance>>

evVars == <<epc, df, num_buy, num_sell, condition, eval_error>>

swVars == <<opc, param_ranges, use_parallel, all_combinations, next_combo,
            waiting, outcome, results, origin, errors, results_flat_df, base>>

psVars == <<spc, trades_arg, balance_arg, risk_arg, summary>>

acVars == <<fpc, cond_table, cond_name, cond_list, cond_error>>

rqVars == <<rpc, request, replay, responses>>

vars == <<btVars, evVars, swVars, psVars, acVars, rqVars>>

\* what the steps of backtest(), of the evaluator and of optimize() leave alone
notBT == <<evVars, swVars, psVars, acVars, rqVars>>
notEval == <<btVars, swVars, psVars, acVars, rqVars>>
notSweep == <<btVars, evVars, psVars, acVars, rqVars>>
notSummary == <<btVars, evVars, swVars, acVars, rqVars>>
notConditions == <<btVars, evVars, swVars, psVars, rqVars>>
notRuns == <<btVars, evVars, swVars, psVars, acVars>>

-----------------------------------------------------------------------------
(* Bounds and input sets *)

Last(s) == s[Len(s)]
\* The element of a one-element set
Only(S) == CHOOSE x \in S : TRUE
Range(s) == {s[k] : k \in DOMAIN s}

NumBars == 4
MaxRows == 2
MaxConds == 2
MaxLen == 6
MaxKeys == 3
MaxValues == 2

Gaps == {1, 2}
Lows == {9400, 9500, 9600}
Highs == {10400, 10500, 10600}
EntryPrices == {10000}
\* tp and sl are percentages, held in hundredths like every other number
\* (500 is 5.00)
TpValues == {500}
SlValues == {400, 500}

\* calculate_performance_summary(trades, initial_balance=10000, risk_per_trade=0.01)
initial_balance == 10000
risk_per_trade == 1

None == "None"
EmptyDict == << >>

-----------------------------------------------------------------------------
(* backtest.py *)

\* A table without rows, pd.DataFrame([])
empty_dataframe == << >>

create_empty_result ==
    << [entry_time |-> 0, entry_price |-> 0, tp_target |-> 0, sl_target |-> 0,
        exit_time |-> 0, exit_price |-> 0, pnl |-> 0, equity |-> 0,
        pnl_perc |-> 0] >>

process_exit_signal(current_trade, exit_time, exit_price, percentage_change) ==
    [entry_time |-> current_trade.entry_time,
     entry_price |-> current_trade.entry_price,
     side |-> current_trade.side,
     tp_target |-> current_trade.tp_price,
     sl_target |-> current_trade.sl_price,
     sl_distance |-> current_trade.sl_distance,
     exit_time |-> exit_time,
     exit_price |-> exit_price,
     perc_chg |-> percentage_change]

\* x * (p / 100), x and p in hundredths
Pct(x, p) == (x * p) \div (100 * 100)

\* The handlers return tuples, as in the source.
handle_buy_exit_tp_first(r, cur, in_pos, closed, tpv, slv) ==
    IF ~in_pos THEN <<cur, in_pos, closed>>
    ELSE IF r.high > cur.tp_price
    THEN <<EmptyDict, FALSE,
           Append(closed, process_exit_signal(cur, r.name, cur.tp_price, tpv \div 100))>>
    ELSE IF r.low < cur.sl_price
    THEN <<EmptyDict, FALSE,
           Append(closed, process_exit_signal(cur, r.name, cur.sl_price, (-1 * slv) \div 100))>>
    ELSE <<cur, in_pos, closed>>

\* handle_buy_exit keeping one record per side: a close overwrites the record
\* of the close before it
handle_buy_exit_overwrite(r, cur, in_pos, closed, tpv, slv) ==
    IF ~in_pos THEN <<cur, in_pos, closed>>
    ELSE IF r.low < cur.sl_price
    THEN <<EmptyDict, FALSE,
           <<process_exit_signal(cur, r.name, cur.sl_price, (-1 * slv) \div 100)>> >>
    ELSE IF r.high > cur.tp_price
    THEN <<EmptyDict, FALSE,
           <<process_exit_signal(cur, r.name, cur.tp_price, tpv \div 100)>> >>
    ELSE <<cur, in_pos, closed>>

handle_buy_exit(r, cur, in_pos, closed, tpv, slv) ==
    IF ~in_pos THEN <<cur, in_pos, closed>>
    ELSE IF r.low < cur.sl_price
    THEN <<EmptyDict, FALSE,
           Append(closed, process_exit_signal(cur, r.name, cur.sl_price, (-1 * slv) \div 100))>>
    ELSE IF r.high > cur.tp_price
    THEN <<EmptyDict, FALSE,
           Append(closed, process_exit_signal(cur, r.name, cur.tp_price, tpv \div 100))>>
    ELSE <<cur, in_pos, closed>>

\* handle_sell_exit closing also on a bar that only touches a level
handle_sell_exit_inclusive(r, cur, in_pos, closed, tpv, slv) ==
    IF ~in_pos THEN <<cur, in_pos, closed>>
    ELSE IF r.high >= cur.sl_price
    THEN <<EmptyDict, FALSE,
           Append(closed, process_exit_signal(cur, r.name, cur.sl_price, (-1 * slv) \div 100))>>
    ELSE IF r.low <= cur.tp_price
    THEN <<EmptyDict, FALSE,
           Append(closed, process_exit_signal(cur, r.name, cur.tp_price, tpv \div 100))>>
    ELSE <<cur, in_pos, closed>>

\* handle_sell_exit recording tp and -sl themselves, in percent
handle_sell_exit_percent_units(r, cur, in_pos, closed, tpv, slv) ==
    IF ~in_pos THEN <<cur, in_pos, closed>>
    ELSE IF r.high > cur.sl_price
    THEN <<EmptyDict, FALSE,
           Append(closed, process_exit_signal(cur, r.name, cur.sl_price, -1 * slv))>>
    ELSE IF r.low < cur.tp_price
    THEN <<EmptyDict, FALSE,
           Append(closed, process_exit_signal(cur, r.name, cur.tp_price, tpv))>>
    ELSE <<cur, in_pos, closed>>

handle_sell_exit(r, cur, in_pos, closed, tpv, slv) ==
    IF ~in_pos THEN <<cur, in_pos, closed>>
    ELSE IF r.high > cur.sl_price
    THEN <<EmptyDict, FALSE,
           Append(closed, process_exit_signal(cur, r.name, cur.sl_price, (-1 * slv) \div 100))>>
    ELSE IF r.low < cur.tp_price
    THEN <<EmptyDict, FALSE,
           Append(closed, process_exit_signal(cur, r.name, cur.tp_price, tpv \div 100))>>
    ELSE <<cur, in_pos, closed>>

\* The entry stamped with the time of the bar that gave the signal
handle_buy_entry_at_signal_bar(r, nxt, in_pos, tpv, slv) ==
    IF ~in_pos /\ r.buy_signal = 1
    THEN << [entry_price |-> r.entry_price,
             entry_time |-> r.name,
             side |-> "long",
             tp_price |-> Pct(r.entry_price, 100 * 100 + tpv),
             sl_price |-> Pct(r.entry_price, 100 * 100 - slv),
             sl_distance |-> r.entry_price - Pct(r.entry_price, 100 * 100 - slv)],
            TRUE >>
    ELSE <<EmptyDict, in_pos>>

handle_buy_entry(r, nxt, in_pos, tpv, slv) ==
    IF ~in_pos /\ r.buy_signal = 1
    THEN << [entry_price |-> r.entry_price,
             entry_time |-> nxt,
             side |-> "long",
             tp_price |-> Pct(r.entry_price, 100 * 100 + tpv),
             sl_price |-> Pct(r.entry_price, 100 * 100 - slv),
             sl_distance |-> r.entry_price - Pct(r.entry_price, 100 * 100 - slv)],
            TRUE >>
    ELSE <<EmptyDict, in_pos>>

handle_sell_entry(r, nxt, in_pos, tpv, slv) ==
    IF ~in_pos /\ r.sell_signal = 1
    THEN << [entry_price |-> r.entry_price,
             entry_time |-> nxt,
             side |-> "short",
             tp_price |-> Pct(r.entry_price, 100 * 100 - tpv),
             sl_price |-> Pct(r.entry_price, 100 * 100 + slv),
             sl_distance |-> Pct(r.entry_price, 100 * 100 + slv) - r.entry_price],
            TRUE >>
    ELSE <<EmptyDict, in_pos>>

\* DataFrame.sort_values(by='entry_time'): insertion of each row after the
\* rows whose key is not greater (the order numpy gives on short tables).
RECURSIVE InsertByEntryTime(_, _)
InsertByEntryTime(sorted, t) ==
    IF sorted = << >> THEN <<t>>
    ELSE IF Head(sorted).entry_time <= t.entry_time
         THEN <<Head(sorted)>> \o InsertByEntryTime(Tail(sorted), t)
         ELSE <<t>> \o sorted

\* The concatenated table handed back without the sort
concat_unsorted(tbl) == tbl

RECURSIVE sort_values_entry_time(_)
sort_values_entry_time(tbl) ==
    IF tbl = << >> THEN << >>
    ELSE InsertByEntryTime(sort_values_entry_time(SubSeq(tbl, 1, Len(tbl) - 1)),
                           tbl[Len(tbl)])

\* backtest.py:122-127, the state the loop starts from
LoopStart ==
    [in_buy_position |-> FALSE, current_buy_trade |-> EmptyDict, buy_trades |-> << >>,
     in_sell_position |-> FALSE, current_sell_trade |-> EmptyDict, sell_trades |-> << >>]

\* An iteration that lets a side enter only while both sides are flat
iteration_one_position(r, nxt, st, tpv, slv) ==
    LET be == handle_buy_exit(r, st.current_buy_trade, st.in_buy_position,
                              st.buy_trades, tpv, slv)
        se == handle_sell_exit(r, st.current_sell_trade, st.in_sell_position,
                               st.sell_trades, tpv, slv)
        bn == IF ~be[2] /\ ~se[2] THEN handle_buy_entry(r, nxt, be[2], tpv, slv)
              ELSE <<be[1], be[2]>>
        sn == IF ~se[2] /\ ~bn[2] THEN handle_sell_entry(r, nxt, se[2], tpv, slv)
              ELSE <<se[1], se[2]>>
    IN [in_buy_position |-> bn[2], current_buy_trade |-> bn[1], buy_trades |-> be[3],
        in_sell_position |-> sn[2], current_sell_trade |-> sn[1], sell_trades |-> se[3]]

\* An iteration with the entries before the exits: a trade opened on a bar is
\* checked against that bar's own high and low
iteration_entries_first(r, nxt, st, tpv, slv) ==
    LET bn == IF ~st.in_buy_position
              THEN handle_buy_entry(r, nxt, st.in_buy_position, tpv, slv)
              ELSE <<st.current_buy_trade, st.in_buy_position>>
        sn == IF ~st.in_sell_position
              THEN handle_sell_entry(r, nxt, st.in_sell_position, tpv, slv)
              ELSE <<st.current_sell_trade, st.in_sell_position>>
        be == handle_buy_exit(r, bn[1], bn[2], st.buy_trades, tpv, slv)
        se == handle_sell_exit(r, sn[1], sn[2], st.sell_trades, tpv, slv)
    IN [in_buy_position |-> be[2], current_buy_trade |-> be[1], buy_trades |-> be[3],
        in_sell_position |-> se[2], current_sell_trade |-> se[1], sell_trades |-> se[3]]

\* backtest.py:132-145, one iteration on the row r = df.iloc[i], nxt being
\* df.iloc[i + 1].name
iteration(r, nxt, st, tpv, slv) ==
    LET be == handle_buy_exit(r, st.current_buy_trade, st.in_buy_position,
                              st.buy_trades, tpv, slv)
        se == handle_sell_exit(r, st.current_sell_trade, st.in_sell_position,
                               st.sell_trades, tpv, slv)
        bn == IF ~be[2] THEN handle_buy_entry(r, nxt, be[2], tpv, slv)
              ELSE <<be[1], be[2]>>
        sn == IF ~se[2] THEN handle_sell_entry(r, nxt, se[2], tpv, slv)
              ELSE <<se[1], se[2]>>
    IN [in_buy_position |-> bn[2], current_buy_trade |-> bn[1], buy_trades |-> be[3],
        in_sell_position |-> sn[2], current_sell_trade |-> sn[1], sell_trades |-> se[3]]

\* backtest.py:130, for i in range(len(df) - 1), from iteration i on; rows is
\* the table as the list of its rows
RECURSIVE for_range(_, _, _, _, _)
for_range(rows, k, st, tpv, slv) ==
    IF k > Len(rows) - 2 THEN st
    ELSE Only({for_range(rows, k + 1, after, tpv, slv) :
               after \in {iteration(rows[k + 1], rows[k + 2].name, st, tpv, slv)}})

\* backtest.py:117-151 on a whole table
backtest(rows, tpv, slv) ==
    IF /\ {k \in DOMAIN rows : rows[k].buy_signal > 0} = {}
       /\ {k \in DOMAIN rows : rows[k].sell_signal > 0} = {}
    THEN create_empty_result
    ELSE Only({IF Len(st.buy_trades \o st.sell_trades) > 0
               THEN sort_values_entry_time(st.buy_trades \o st.sell_trades)
               ELSE create_empty_result :
               st \in {for_range(rows, 0, LoopStart, tpv, slv)}})

-----------------------------------------------------------------------------
(* performance_summary.py *)

\* Exact decimals: the number digits / Base^scale, digits little-endian in
\* base Base, without a low zero digit while scale > 0 and without high zeros.
Base == 100 * 100

RECURSIVE StripHigh(_)
StripHigh(d) ==
    IF d # << >> /\ d[Len(d)] = 0 THEN StripHigh(SubSeq(d, 1, Len(d) - 1)) ELSE d

RECURSIVE StripLow(_, _)
StripLow(d, scale) ==
    IF scale > 0 /\ d # << >> /\ d[1] = 0
    THEN StripLow(Tail(d), scale - 1)
    ELSE [digits |-> d, scale |-> IF d = << >> THEN 0 ELSE scale]

Normal(d, scale) == StripLow(StripHigh(d), scale)

RECURSIVE DigitsOf(_)
DigitsOf(k) == IF k = 0 THEN << >> ELSE <<k % Base>> \o DigitsOf(k \div Base)

Dec(k) == Normal(DigitsOf(k), 0)

RECURSIVE MulDigits(_, _, _)
MulDigits(d, m, carry) ==
    IF d = << >>
    THEN DigitsOf(carry)
    ELSE LET v == d[1] * m + carry
         IN <<v % Base>> \o MulDigits(Tail(d), m, v \div Base)

\* The balance with the whole of it at risk: balance += balance * pnl_percent
Compound_without_risk(balance, risk, pnl_percent) ==
    Normal(MulDigits(balance.digits, Base + 100 * pnl_percent, 0),
           balance.scale + 1)

\* balance += (balance * risk) * pnl_percent, risk and pnl_percent in hundredths:
\* balance * (Base + risk * pnl) / Base
Compound(balance, risk, pnl_percent) ==
    Normal(MulDigits(balance.digits, Base + risk * pnl_percent, 0),
           balance.scale + 1)

RECURSIVE Gcd(_, _)
Gcd(a, b) == IF b = 0 THEN a ELSE Gcd(b, a % b)

\* float('inf'), written as the fraction 1/0
Inf == <<1, 0>>
\* a / b as a reduced fraction
Ratio(a, b) == <<a \div Gcd(a, b), b \div Gcd(a, b)>>

Abs(x) == IF x < 0 THEN -x ELSE x

\* Digit arithmetic for decimals that do not fit a machine integer
Front(d) == SubSeq(d, 1, Len(d) - 1)
Rest(d) == IF d = << >> THEN << >> ELSE Tail(d)
Digit(d) == IF d = << >> THEN 0 ELSE d[1]
Zeros(k) == [j \in 1..k |-> 0]

RECURSIVE AddDigits(_, _, _)
AddDigits(a, b, carry) ==
    IF a = << >> /\ b = << >>
    THEN DigitsOf(carry)
    ELSE LET v == Digit(a) + Digit(b) + carry
         IN <<v % Base>> \o AddDigits(Rest(a), Rest(b), v \div Base)

\* a - b for a >= b
RECURSIVE SubDigits(_, _, _)
SubDigits(a, b, borrow) ==
    IF a = << >>
    THEN << >>
    ELSE LET v == a[1] - Digit(b) - borrow
         IN <<IF v < 0 THEN v + Base ELSE v>>
                \o SubDigits(Tail(a), Rest(b), IF v < 0 THEN 1 ELSE 0)

\* -1, 0 or 1 as a < b, a = b or a > b (neither has high zeros)
RECURSIVE CmpDigits(_, _)
CmpDigits(a, b) ==
    IF Len(a) # Len(b) THEN (IF Len(a) < Len(b) THEN -1 ELSE 1)
    ELSE IF a = << >> THEN 0
    ELSE IF Last(a) # Last(b) THEN (IF Last(a) < Last(b) THEN -1 ELSE 1)
    ELSE CmpDigits(Front(a), Front(b))

RECURSIVE MulBig(_, _)
MulBig(a, b) ==
    IF b = << >>
    THEN << >>
    ELSE StripHigh(AddDigits(MulDigits(a, b[1], 0), <<0>> \o MulBig(a, Tail(b)), 0))

\* the digits of the decimal x at the scale s >= x.scale
Align(x, s) == StripHigh(Zeros(s - x.scale) \o x.digits)
MaxOf(a, b) == IF a < b THEN b ELSE a

DecCmp(x, y) ==
    CmpDigits(Align(x, MaxOf(x.scale, y.scale)), Align(y, MaxOf(x.scale, y.scale)))
DecAdd(x, y) ==
    Normal(AddDigits(Align(x, MaxOf(x.scale, y.scale)),
                     Align(y, MaxOf(x.scale, y.scale)), 0),
           MaxOf(x.scale, y.scale))
\* x - y for x >= y
DecSub(x, y) ==
    Normal(SubDigits(Align(x, MaxOf(x.scale, y.scale)),
                     Align(y, MaxOf(x.scale, y.scale)), 0),
           MaxOf(x.scale, y.scale))

\* Quotients of decimals are kept as fractions <<numerator, denominator>> of
\* digit sequences and compared by cross-multiplication; 0 is <<0, 1>>.
Zero == << << >>, <<1>> >>
Quot(x, y) ==
    IF x.digits = << >> THEN Zero
    ELSE <<Align(x, MaxOf(x.scale, y.scale)), Align(y, MaxOf(x.scale, y.scale))>>
FracCmp(f, g) == CmpDigits(MulBig(f[1], g[2]), MulBig(g[1], f[2]))
\* f * m for a machine integer m
FracTimes(f, m) == IF f[1] = << >> THEN Zero ELSE <<StripHigh(MulDigits(f[1], m, 0)), f[2]>>

\* performance_summary.py:5-43; a timedelta is the one-element tuple of its
\* whole seconds (td.days * 86400 + td.seconds), the null timedelta is empty
NaT == << >>
Timedelta(seconds) == <<seconds>>
Plural(k, word) == ToString(k) \o " " \o word \o (IF k # 1 THEN "s" ELSE "")

RECURSIVE JoinComma(_)
JoinComma(parts) ==
    IF Len(parts) = 1 THEN parts[1]
    ELSE parts[1] \o ", " \o JoinComma(Tail(parts))

format_timedelta(td) ==
    IF td = NaT THEN "0 secs"
    ELSE LET total_days == td[1] \div 86400
             years == total_days \div 365
             months == (total_days % 365) \div 30
             days == (total_days % 365) % 30
             hours == (td[1] % 86400) \div 3600
             minutes == ((td[1] % 86400) % 3600) \div 60
             seconds == ((td[1] % 86400) % 3600) % 60
             upto_minutes ==
                 (IF years > 0 THEN <<Plural(years, "year")>> ELSE << >>)
                 \o (IF months > 0 THEN <<Plural(months, "month")>> ELSE << >>)
                 \o (IF days > 0 THEN <<Plural(days, "day")>> ELSE << >>)
                 \o (IF hours > 0 THEN <<Plural(hours, "hour")>> ELSE << >>)
                 \o (IF minutes > 0 THEN <<Plural(minutes, "min")>> ELSE << >>)
             parts ==
                 upto_minutes
                 \o (IF seconds > 0 \/ upto_minutes = << >>
                     THEN <<Plural(seconds, "sec")>> ELSE << >>)
         IN IF Len(parts) > 1
            THEN JoinComma(Front(parts)) \o " and " \o Last(parts)
            ELSE parts[1]

\* performance_summary.py:88-90, the three column assignments on the table the
\* caller passed in (index labels count seconds)
with_durations(trades_df) ==
    [k \in 1..Len(trades_df) |->
        [c \in DOMAIN trades_df[k] \cup {"duration"} |->
            IF c = "duration"
            THEN trades_df[k].exit_time - trades_df[k].entry_time
            ELSE trades_df[k][c]]]

RECURSIVE SumOf(_, _)
SumOf(tbl, col) == IF tbl = << >> THEN 0 ELSE Head(tbl)[col] + SumOf(Tail(tbl), col)

\* Series.mean(), with the fraction of a second that .days and .seconds drop
mean_duration(tbl) == Timedelta(SumOf(tbl, "duration") \div Len(tbl))
\* trades_df['exit_time'].max() - trades_df['entry_time'].min()
total_duration(tbl) ==
    Timedelta((CHOOSE x \in {r.exit_time : r \in Range(tbl)} :
                  \A r \in Range(tbl) : r.exit_time <= x)
              - (CHOOSE x \in {r.entry_time : r \in Range(tbl)} :
                  \A r \in Range(tbl) : x <= r.entry_time))

\* The counters with total_loss += pnl_percent, the abs() of line 121 left out
count_trade_without_abs(st, pnl_percent) ==
    IF pnl_percent > 0
    THEN [wins |-> st.wins + 1, losses |-> st.losses,
          total_profit |-> st.total_profit + pnl_percent,
          total_loss |-> st.total_loss]
    ELSE [wins |-> st.wins, losses |-> st.losses + 1,
          total_profit |-> st.total_profit,
          total_loss |-> st.total_loss + pnl_percent]

\* The counters with a trade of pnl 0 taken for a win
count_trade_zero_wins(st, pnl_percent) ==
    IF pnl_percent >= 0
    THEN [wins |-> st.wins + 1, losses |-> st.losses,
          total_profit |-> st.total_profit + pnl_percent,
          total_loss |-> st.total_loss]
    ELSE [wins |-> st.wins, losses |-> st.losses + 1,
          total_profit |-> st.total_profit,
          total_loss |-> st.total_loss + Abs(pnl_percent)]

\* performance_summary.py:116-121
count_trade(st, pnl_percent) ==
    IF pnl_percent > 0
    THEN [wins |-> st.wins + 1, losses |-> st.losses,
          total_profit |-> st.total_profit + pnl_percent,
          total_loss |-> st.total_loss]
    ELSE [wins |-> st.wins, losses |-> st.losses + 1,
          total_profit |-> st.total_profit,
          total_loss |-> st.total_loss + Abs(pnl_percent)]

\* max(max_drawdown, drawdown) of line 128: the first argument unless the
\* second is greater
max(max_drawdown, drawdown) ==
    IF FracCmp(max_drawdown, drawdown) < 0 THEN drawdown ELSE max_drawdown

\* The drawdown measured from a peak that is never raised (a balance above
\* the peak gives a negative drawdown, which max() never keeps)
update_drawdown_fixed_peak(st, balance) ==
    [max_balance |-> st.max_balance,
     max_drawdown |->
         IF DecCmp(balance, st.max_balance) > 0 THEN st.max_drawdown
         ELSE max(st.max_drawdown,
                  Quot(DecSub(st.max_balance, balance), st.max_balance))]

\* performance_summary.py:124-128
update_drawdown(st, balance) ==
    Only({[max_balance |-> max_balance,
           max_drawdown |->
               max(st.max_drawdown,
                   IF max_balance.digits # << >>
                   THEN Quot(DecSub(max_balance, balance), max_balance)
                   ELSE Zero)] :
          max_balance \in {IF DecCmp(balance, st.max_balance) > 0
                           THEN balance ELSE st.max_balance}})

\* performance_summary.py:104-128, one pass of the loop over
\* trades_df.iterrows()
trade_step(st, risk, pnl_percent) ==
    Only({[balance |-> balance,
           wins |-> counted.wins,
           losses |-> counted.losses,
           total_profit |-> counted.total_profit,
           total_loss |-> counted.total_loss,
           max_balance |-> peak.max_balance,
           max_drawdown |-> peak.max_drawdown] :
          balance \in {Compound(st.balance, risk, pnl_percent)},
          counted \in {count_trade(st, pnl_percent)},
          peak \in {update_drawdown(st, Compound(st.balance, risk, pnl_percent))}})

RECURSIVE ProcessTrades(_, _, _, _)
ProcessTrades(tbl, pnl_col, risk, st) ==
    IF tbl = << >> THEN st
    ELSE ProcessTrades(Tail(tbl), pnl_col, risk,
                       trade_step(st, risk, Head(tbl)[pnl_col]))

\* performance_summary.py:75-143, past the test of the empty table
after_empty_test(trades_df, balance0, risk) ==
    LET pnl_col == IF "perc_chg" \in DOMAIN trades_df[1]
                   THEN "perc_chg" ELSE "pnl_perc"
        st == ProcessTrades(trades_df, pnl_col, risk,
                 [balance |-> Dec(balance0), wins |-> 0, losses |-> 0,
                  total_profit |-> 0, total_loss |-> 0,
                  max_balance |-> Dec(balance0), max_drawdown |-> Zero])
        total_trades == st.wins + st.losses
    IN [total_trades |-> total_trades,
        win_rate |-> IF total_trades > 0
                     THEN Ratio(st.wins * 100, total_trades)
                     ELSE Ratio(0, 1),
        profit_factor |-> IF st.total_loss > 0
                          THEN Ratio(st.total_profit, st.total_loss)
                          ELSE Inf,
        final_balance |-> st.balance,
        max_drawdown_percent |-> FracTimes(st.max_drawdown, 100),
        avg_trade_duration |->
            format_timedelta(mean_duration(with_durations(trades_df))),
        total_strategy_duration |->
            format_timedelta(total_duration(trades_df))]

\* The summary without the test of lines 64-73: on the empty table the loop
\* does nothing, the mean duration is null and total_loss stays 0.
summary_without_empty_test(trades_df, balance0, risk) ==
    IF trades_df = << >>
    THEN [total_trades |-> 0,
          win_rate |-> Ratio(0, 1),
          profit_factor |-> Inf,
          final_balance |-> Dec(balance0),
          max_drawdown_percent |-> Zero,
          avg_trade_duration |-> format_timedelta(NaT),
          total_strategy_duration |-> format_timedelta(Timedelta(0))]
    ELSE after_empty_test(trades_df, balance0, risk)

calculate_performance_summary(trades_df, balance0, risk) ==
    IF trades_df = << >>
    THEN [total_trades |-> 0,
          win_rate |-> Ratio(0, 1),
          profit_factor |-> Ratio(0, 1),
          final_balance |-> Dec(balance0),
          max_drawdown_percent |-> Zero,
          avg_trade_duration |-> "0 secs",
          total_strategy_duration |-> "0 secs"]
    ELSE after_empty_test(trades_df, balance0, risk)

-----------------------------------------------------------------------------
(* apply_signals.py *)

\* A cell of a column is <<v>>, or NaN where pandas holds no value.
NaN == << >>
Cell(v) == <<v>>

Operators == {">", "<", "==", "!=", ">=", "<="}

\* Series.shift(k), k >= 0: row j takes the cell of row j - k, the first k
\* rows take NaN.
shift(series, k) ==
    [j \in DOMAIN series |-> IF j - k >= 1 THEN series[j - k] ELSE NaN]

\* shift as if it filled the vacated rows with False.
shift_fill_false(series, k) ==
    [j \in DOMAIN series |-> IF j - k >= 1 THEN series[j - k] ELSE Cell(FALSE)]

\* shift as calculate_signals uses it on a conditions column
shift_conditions(series, k) == shift(series, k)

\* A call either returns a value or raises.
Return(v) == [ok |-> TRUE, value |-> v]
Raise(e) == [ok |-> FALSE, error |-> e]
ColumnError == "ValueError: column does not exist"
ComparatorError == "ValueError: invalid comparator"

\* The lookup as if a column the table lacks read as a column of NaN
get_shifted_series_lenient(table, operand) ==
    IF operand.column \in DOMAIN table
    THEN Return(shift(table[operand.column], operand.shift))
    ELSE Return([j \in DOMAIN table["close"] |-> NaN])

\* apply_signals.py:5-11
get_shifted_series(table, operand) ==
    IF operand.column \in DOMAIN table
    THEN Return(shift(table[operand.column], operand.shift))
    ELSE Raise(ColumnError)

\* operator.gt & co. on two cells, as pandas compares elementwise: a
\* comparison with NaN is False, except != which is True.
compare(op, l, r) ==
    IF l = NaN \/ r = NaN THEN Cell(op = "!=")
    ELSE Cell(CASE op = ">" -> l[1] > r[1]
                [] op = "<" -> l[1] < r[1]
                [] op = "==" -> l[1] = r[1]
                [] op = "!=" -> l[1] # r[1]
                [] op = ">=" -> l[1] >= r[1]
                [] op = "<=" -> l[1] <= r[1])

\* Series.fillna(False) on a comparison result, giving plain booleans
fillna_false(series) ==
    [j \in DOMAIN series |-> IF series[j] = NaN THEN FALSE ELSE series[j][1]]

\* The body of the loop as if line 40 assigned the result instead of AND-ing
\* it into the column
apply_condition_overwrite(table, name, cond) ==
    IF cond.comparator \in Operators
    THEN LET left == get_shifted_series(table, cond.left_operand)
             right == get_shifted_series(table, cond.right_operand)
         IN IF ~left.ok THEN left
            ELSE IF ~right.ok THEN right
            ELSE Return([table EXCEPT ![name] =
                    fillna_false([j \in DOMAIN left.value |->
                        compare(cond.comparator, left.value[j], right.value[j])])])
    ELSE Raise(ComparatorError)

\* apply_signals.py:35-43, the body of the loop for one condition on the
\* conditions column `name`: the table after it, or the error raised.
apply_condition(table, name, cond) ==
    IF cond.comparator \in Operators
    THEN LET left == get_shifted_series(table, cond.left_operand)
             right == get_shifted_series(table, cond.right_operand)
         IN IF ~left.ok THEN left
            ELSE IF ~right.ok THEN right
            ELSE LET condition_result ==
                         fillna_false([j \in DOMAIN left.value |->
                             compare(cond.comparator, left.value[j], right.value[j])])
                 IN Return([table EXCEPT ![name] =
                        [j \in DOMAIN @ |-> @[j] /\ condition_result[j]]])
    ELSE Raise(ComparatorError)

\* signal = 1 wherever the conditions column is true, whatever the row before
level_signal(cond_col) ==
    [j \in DOMAIN cond_col |-> IF cond_col[j] = TRUE THEN 1 ELSE 0]

\* The signal with the missing row before the first bar taken for False: a
\* column that is true from the first bar on gives a signal there
edge_signal_first_bar(cond_col) ==
    [j \in DOMAIN cond_col |->
        IF (j = 1 \/ cond_col[j - 1] = FALSE) /\ cond_col[j] = TRUE THEN 1 ELSE 0]

\* apply_signals.py:83, np.where((c.shift(1) == False) & (c == True), 1, 0)
edge_signal(cond_col) ==
    LET prev == shift_conditions([j \in DOMAIN cond_col |-> Cell(cond_col[j])], 1)
    IN [j \in DOMAIN cond_col |->
          IF (prev[j] # NaN /\ prev[j][1] = FALSE) /\ cond_col[j] = TRUE
          THEN 1 ELSE 0]

\* apply_signals.py:81-85
calculate_signals(table) ==
    [c \in DOMAIN table \cup {"buy_signal", "sell_signal"} |->
        IF c = "buy_signal" THEN edge_signal(table["buy_conditions"])
        ELSE IF c = "sell_signal" THEN edge_signal(table["sell_conditions"])
        ELSE table[c]]

AddColumn(table, name, col) ==
    [c \in DOMAIN table \cup {name} |-> IF c = name THEN col ELSE table[c]]

-----------------------------------------------------------------------------
(* The rows of the bar table.  backtest() reads df.iloc[i] only in iteration *)
(* i, so row i is drawn when the loop reaches it.                            *)

Rows(name) ==
    [name : {name}, low : Lows, high : Highs, entry_price : EntryPrices,
     buy_signal : {0, 1}, sell_signal : {0, 1}]

InitBT ==
    /\ pc = "backtest"
    /\ n \in 1..NumBars
    /\ no_signals \in BOOLEAN
    /\ tp \in TpValues
    /\ sl \in SlValues
    /\ i = -1
    /\ row = None
    /\ next_name = None
    /\ in_buy_position = FALSE
    /\ in_sell_position = FALSE
    /\ current_buy_trade = EmptyDict
    /\ current_sell_trade = EmptyDict
    /\ buy_trades = << >>
    /\ sell_trades = << >>
    /\ trades = None
    /\ performance = None

\* backtest.py:119-128
BacktestEntry ==
    /\ pc = "backtest"
    /\ IF no_signals
       THEN /\ trades' = create_empty_result
            /\ pc' = "returned"
       ELSE /\ trades' = trades
            /\ pc' = "for"
    /\ UNCHANGED <<n, i, row, next_name, no_signals, tp, sl,
                   in_buy_position, current_buy_trade, buy_trades,
                   in_sell_position, current_sell_trade, sell_trades,
                   performance>>
    /\ UNCHANGED notBT

\* backtest.py:130, for i in range(len(df) - 1)
ForBar ==
    /\ pc = "for"
    /\ IF i + 1 <= n - 2
       THEN /\ i' = i + 1
            /\ \E nm \in (IF i = -1 THEN {1} ELSE {next_name}) :
                 /\ row' \in Rows(nm)
                 /\ next_name' \in {nm + g : g \in Gaps}
            /\ pc' = "buy_exit"
       ELSE /\ pc' = "combine"
            /\ UNCHANGED <<i, row, next_name>>
    /\ UNCHANGED <<n, no_signals, tp, sl,
                   in_buy_position, current_buy_trade, buy_trades,
                   in_sell_position, current_sell_trade, sell_trades,
                   trades, performance>>
    /\ UNCHANGED notBT

\* backtest.py:132-134
BuyExit ==
    /\ pc = "buy_exit"
    /\ LET res == handle_buy_exit(row, current_buy_trade, in_buy_position,
                                  buy_trades, tp, sl)
       IN /\ current_buy_trade' = res[1]
          /\ in_buy_position' = res[2]
          /\ buy_trades' = res[3]
    /\ pc' = "sell_exit"
    /\ UNCHANGED <<n, i, row, next_name, no_signals, tp, sl,
                   in_sell_position, current_sell_trade, sell_trades,
                   trades, performance>>
    /\ UNCHANGED notBT

\* backtest.py:136-138
SellExit ==
    /\ pc = "sell_exit"
    /\ LET res == handle_sell_exit(row, current_sell_trade, in_sell_position,
                                   sell_trades, tp, sl)
       IN /\ current_sell_trade' = res[1]
          /\ in_sell_position' = res[2]
          /\ sell_trades' = res[3]
    /\ pc' = "buy_entry"
    /\ UNCHANGED <<n, i, row, next_name, no_signals, tp, sl,
                   in_buy_position, current_buy_trade, buy_trades,
                   trades, performance>>
    /\ UNCHANGED notBT

\* BuyEntry with the position test dropped: a signal opens a trade even
\* while one is open.
BuyEntryUnguarded ==
    /\ pc = "buy_entry"
    /\ IF row.buy_signal = 1
       THEN LET res == handle_buy_entry(row, next_name, FALSE, tp, sl)
            IN /\ current_buy_trade' = res[1]
               /\ in_buy_position' = res[2]
       ELSE UNCHANGED <<current_buy_trade, in_buy_position>>
    /\ pc' = "sell_entry"
    /\ UNCHANGED <<n, i, row, next_name, no_signals, tp, sl, buy_trades,
                   in_sell_position, current_sell_trade, sell_trades,
                   trades, performance>>
    /\ UNCHANGED notBT

\* BuyEntry that stays flat on the bar that closed the previous long.
BuyEntryNoReopen ==
    /\ pc = "buy_entry"
    /\ IF ~in_buy_position
          /\ ~(buy_trades # << >> /\ buy_trades[Len(buy_trades)].exit_time = row.name)
       THEN LET res == handle_buy_entry(row, next_name, in_buy_position, tp, sl)
            IN /\ current_buy_trade' = res[1]
               /\ in_buy_position' = res[2]
       ELSE UNCHANGED <<current_buy_trade, in_buy_position>>
    /\ pc' = "sell_entry"
    /\ UNCHANGED <<n, i, row, next_name, no_signals, tp, sl, buy_trades,
                   in_sell_position, current_sell_trade, sell_trades,
                   trades, performance>>
    /\ UNCHANGED notBT

\* backtest.py:141-142
BuyEntry ==
    /\ pc = "buy_entry"
    /\ IF ~in_buy_position
       THEN LET res == handle_buy_entry(row, next_name, in_buy_position, tp, sl)
            IN /\ current_buy_trade' = res[1]
               /\ in_buy_position' = res[2]
       ELSE UNCHANGED <<current_buy_trade, in_buy_position>>
    /\ pc' = "sell_entry"
    /\ UNCHANGED <<n, i, row, next_name, no_signals, tp, sl, buy_trades,
                   in_sell_position, current_sell_trade, sell_trades,
                   trades, performance>>
    /\ UNCHANGED notBT

\* backtest.py:144-145
SellEntry ==
    /\ pc = "sell_entry"
    /\ IF ~in_sell_position
       THEN LET res == handle_sell_entry(row, next_name, in_sell_position, tp, sl)
            IN /\ current_sell_trade' = res[1]
               /\ in_sell_position' = res[2]
       ELSE UNCHANGED <<current_sell_trade, in_sell_position>>
    /\ pc' = "for"
    /\ UNCHANGED <<n, i, row, next_name, no_signals, tp, sl, sell_trades,
                   in_buy_position, current_buy_trade, buy_trades,
                   trades, performance>>
    /\ UNCHANGED notBT

\* A combine that also reports the positions still open after the loop, marked
\* to the last processed bar.
CombineWithOpen ==
    /\ pc = "combine"
    /\ LET open_buy == IF in_buy_position
                       THEN << process_exit_signal(current_buy_trade, row.name,
                                                   row.entry_price, 0) >>
                       ELSE << >>
           open_sell == IF in_sell_position
                        THEN << process_exit_signal(current_sell_trade, row.name,
                                                    row.entry_price, 0) >>
                        ELSE << >>
           all_trades == buy_trades \o open_buy \o sell_trades \o open_sell
       IN trades' = IF Len(all_trades) > 0
                    THEN sort_values_entry_time(all_trades)
                    ELSE create_empty_result
    /\ pc' = "returned"
    /\ UNCHANGED <<n, i, row, next_name, no_signals, tp, sl,
                   in_buy_position, current_buy_trade, buy_trades,
                   in_sell_position, current_sell_trade, sell_trades,
                   performance>>
    /\ UNCHANGED notBT

\* backtest.py:147-151
Combine ==
    /\ pc = "combine"
    /\ LET all_trades == buy_trades \o sell_trades
       IN trades' = IF Len(all_trades) > 0
                    THEN sort_values_entry_time(all_trades)
                    ELSE create_empty_result
    /\ pc' = "returned"
    /\ UNCHANGED <<n, i, row, next_name, no_signals, tp, sl,
                   in_buy_position, current_buy_trade, buy_trades,
                   in_sell_position, current_sell_trade, sell_trades,
                   performance>>
    /\ UNCHANGED notBT

\* main.py:187-195, the summary of the returned table
Summarize ==
    /\ pc = "returned"
    /\ performance' = calculate_performance_summary(trades, initial_balance,
                                                     risk_per_trade)
    /\ trades' = with_durations(trades)
    /\ pc' = "summarized"
    /\ UNCHANGED <<n, i, row, next_name, no_signals, tp, sl,
                   in_buy_position, current_buy_trade, buy_trades,
                   in_sell_position, current_sell_trade, sell_trades>>
    /\ UNCHANGED notBT

-----------------------------------------------------------------------------
(* The condition evaluator: apply_buy_conditions, apply_sell_conditions and  *)
(* calculate_signals on one table, in the order of main.py:163-171 and       *)
(* optimize.py:163-165.  Each loop reads its list one condition at a time,   *)
(* so a condition is drawn when the loop reaches it.                         *)

Prices == {1, 2, 3}
Operands ==
    {[column |-> "close", shift |-> 0], [column |-> "close", shift |-> 1],
     [column |-> "sma", shift |-> 0], [column |-> "volume_ma", shift |-> 0]}
Comparators == Operators \cup {"=>"}
Conditions ==
    {c \in [left_operand : Operands, comparator : Comparators,
            right_operand : Operands] :
        /\ c.left_operand.column \in {"close", "volume_ma"}
        /\ c.right_operand \in {[column |-> "sma", shift |-> 0],
                                [column |-> "close", shift |-> 1]}
        /\ c.left_operand # c.right_operand}

\* close is any column of prices; sma is an indicator column: NaN on the
\* first row (warm-up), 2 afterwards.
BarTables(k) ==
    {[c \in {"close", "sma"} |->
        IF c = "close" THEN cl
        ELSE [j \in 1..k |-> IF j = 1 THEN NaN ELSE Cell(2)]] :
     cl \in [1..k -> {Cell(v) : v \in Prices}]}

\* A table that went through the evaluator before still carries its
\* conditions columns.
Stale(k) == [j \in 1..k |-> j % 2 = 1]
EvalTables ==
    UNION {BarTables(k) \cup
           {AddColumn(AddColumn(t, "buy_conditions", Stale(k)),
                      "sell_conditions", Stale(k)) : t \in BarTables(k)} :
           k \in 1..MaxRows}

\* The loop variable `condition` before the first iteration of a loop
Unbound == << >>

IdleBT ==
    /\ pc = "idle"
    /\ n = 0 /\ i = -1 /\ row = None /\ next_name = None
    /\ no_signals = FALSE /\ tp = 0 /\ sl = 0
    /\ in_buy_position = FALSE /\ in_sell_position = FALSE
    /\ current_buy_trade = EmptyDict /\ current_sell_trade = EmptyDict
    /\ buy_trades = << >> /\ sell_trades = << >>
    /\ trades = None /\ performance = None

IdleEval ==
    /\ epc = "idle"
    /\ df = << >>
    /\ num_buy = 0 /\ num_sell = 0
    /\ condition = Unbound
    /\ eval_error = None

InitEval ==
    /\ epc = "apply_buy"
    /\ df \in EvalTables
    /\ num_buy \in 0..MaxConds
    /\ num_sell \in 0..MaxConds
    /\ condition = Unbound
    /\ eval_error = None

\* The all-True column of df['buy_conditions'] = True
AllTrue(table) == [j \in DOMAIN table["close"] |-> TRUE]

\* apply_signals.py:14-15
ApplyBuyConditions ==
    /\ epc = "apply_buy"
    /\ df' = IF "buy_conditions" \notin DOMAIN df
             THEN AddColumn(df, "buy_conditions", AllTrue(df))
             ELSE df
    /\ epc' = "buy_loop"
    /\ UNCHANGED <<num_buy, num_sell, condition, eval_error>>
    /\ UNCHANGED notEval

\* apply_signals.py:28-43, one iteration of the loop
BuyCondition ==
    /\ epc = "buy_loop"
    /\ num_buy > 0
    /\ \E c \in Conditions :
         /\ condition' = c
         /\ LET res == apply_condition(df, "buy_conditions", c)
            IN IF res.ok
               THEN /\ df' = res.value
                    /\ UNCHANGED <<epc, eval_error>>
               ELSE /\ eval_error' = res.error
                    /\ epc' = "raised"
                    /\ df' = df
    /\ num_buy' = num_buy - 1
    /\ UNCHANGED num_sell
    /\ UNCHANGED notEval

\* apply_signals.py:45
BuyReturn ==
    /\ epc = "buy_loop"
    /\ num_buy = 0
    /\ epc' = "apply_sell"
    /\ condition' = Unbound
    /\ UNCHANGED <<df, num_buy, num_sell, eval_error>>
    /\ UNCHANGED notEval

\* apply_signals.py:48-49
ApplySellConditions ==
    /\ epc = "apply_sell"
    /\ df' = IF "sell_conditions" \notin DOMAIN df
             THEN AddColumn(df, "sell_conditions", AllTrue(df))
             ELSE df
    /\ epc' = "sell_loop"
    /\ UNCHANGED <<num_buy, num_sell, condition, eval_error>>
    /\ UNCHANGED notEval

\* apply_signals.py:62-77, one iteration of the loop
SellCondition ==
    /\ epc = "sell_loop"
    /\ num_sell > 0
    /\ \E c \in Conditions :
         /\ condition' = c
         /\ LET res == apply_condition(df, "sell_conditions", c)
            IN IF res.ok
               THEN /\ df' = res.value
                    /\ UNCHANGED <<epc, eval_error>>
               ELSE /\ eval_error' = res.error
                    /\ epc' = "raised"
                    /\ df' = df
    /\ num_sell' = num_sell - 1
    /\ UNCHANGED num_buy
    /\ UNCHANGED notEval

\* apply_signals.py:79
SellReturn ==
    /\ epc = "sell_loop"
    /\ num_sell = 0
    /\ epc' = "signals"
    /\ condition' = Unbound
    /\ UNCHANGED <<df, num_buy, num_sell, eval_error>>
    /\ UNCHANGED notEval

\* apply_signals.py:81-85
CalculateSignals ==
    /\ epc = "signals"
    /\ df' = calculate_signals(df)
    /\ epc' = "done"
    /\ UNCHANGED <<num_buy, num_sell, condition, eval_error>>
    /\ UNCHANGED notEval

\* calculate_signals on a table whose conditions columns are any two boolean
\* columns
InitSignals ==
    /\ epc = "signals"
    /\ \E k \in 1..MaxLen :
         df \in [buy_conditions : [1..k -> BOOLEAN],
                 sell_conditions : [1..k -> BOOLEAN]]
    /\ num_buy = 0 /\ num_sell = 0
    /\ condition = Unbound
    /\ eval_error = None

-----------------------------------------------------------------------------
(* optimize.py.  A dict is the list of its <<key, value>> items in insertion  *)
(* order.  A parameter key is the list of its parts between underscores:     *)
(* sma_1_length is <<"sma", "1", "length">>.                                 *)

Keys(d) == {d[x][1] : x \in DOMAIN d}
Get(d, key) == (CHOOSE x \in Range(d) : x[1] = key)[2]
\* d[key] = value
Set(d, key, value) ==
    IF key \in Keys(d)
    THEN [x \in DOMAIN d |-> IF d[x][1] = key THEN <<key, value>> ELSE d[x]]
    ELSE Append(d, <<key, value>>)
\* dict equality: the same items, in any order
DictEq(d, e) == Range(d) = Range(e)

RECURSIVE Concat(_)
Concat(ss) == IF ss = << >> THEN << >> ELSE Head(ss) \o Concat(Tail(ss))

\* The product with the first key varying fastest
RECURSIVE product_first_key_fastest(_)
product_first_key_fastest(ranges) ==
    IF ranges = << >> THEN << << >> >>
    ELSE LET name == Head(ranges)[1]
             values == Head(ranges)[2]
             rest == product_first_key_fastest(Tail(ranges))
         IN Concat([r \in DOMAIN rest |->
                [v \in DOMAIN values |-> <<<<name, values[v]>>>> \o rest[r]]])

\* optimize.py:13-37, itertools.product over the value lists: the first key
\* varies slowest.
RECURSIVE generate_parameter_combinations(_)
generate_parameter_combinations(ranges) ==
    IF ranges = << >> THEN << << >> >>
    ELSE LET name == Head(ranges)[1]
             values == Head(ranges)[2]
             rest == generate_parameter_combinations(Tail(ranges))
         IN Concat([v \in DOMAIN values |->
                [r \in DOMAIN rest |-> <<<<name, values[v]>>>> \o rest[r]]])

Digits == {"1", "2"}
IndicatorTypes == {"sma", "ema", "rsi", "macd", "vwap", "bollinger"}

\* The grouping by the indicator names alone, without the test of a numeric
\* second part
RECURSIVE GroupParamsByName(_, _)
GroupParamsByName(items, acc) ==
    IF items = << >> THEN acc
    ELSE LET parts == Head(items)[1]
             value == Head(items)[2]
             ip == acc.indicator_params
             config == IF <<parts[1]>> \in Keys(ip)
                       THEN Get(ip, <<parts[1]>>)
                       ELSE [type |-> parts[1], index |-> "", params |-> << >>]
         IN GroupParamsByName(Tail(items),
                IF Len(parts) > 1 /\ parts[1] \in IndicatorTypes
                THEN [acc EXCEPT !.indicator_params =
                         Set(ip, <<parts[1]>>,
                             [config EXCEPT !.params = Set(@, Tail(parts), value)])]
                ELSE [acc EXCEPT !.trading_params = Set(@, parts, value)])

\* optimize.py:62-100, the loop over params.items(); index is "" for an
\* indicator without one
RECURSIVE GroupParams(_, _)
GroupParams(items, acc) ==
    IF items = << >> THEN acc
    ELSE LET parts == Head(items)[1]
             value == Head(items)[2]
             ip == acc.indicator_params
             add(indicator_key, indicator_type, indicator_index, param_name) ==
                 LET config == IF indicator_key \in Keys(ip)
                               THEN Get(ip, indicator_key)
                               ELSE [type |-> indicator_type,
                                     index |-> indicator_index,
                                     params |-> << >>]
                 IN [acc EXCEPT !.indicator_params =
                        Set(ip, indicator_key,
                            [config EXCEPT !.params = Set(@, param_name, value)])]
         IN GroupParams(Tail(items),
                IF Len(parts) > 1
                THEN IF parts[2] \in Digits
                     THEN add(<<parts[1], parts[2]>>, parts[1], parts[2],
                              SubSeq(parts, 3, Len(parts)))
                     ELSE IF parts[1] \in IndicatorTypes
                     THEN add(<<parts[1]>>, parts[1], "", Tail(parts))
                     ELSE [acc EXCEPT !.trading_params = Set(@, parts, value)]
                ELSE [acc EXCEPT !.trading_params = Set(@, parts, value)])

\* apply_indicators.py:20-96: whether ta_indicator raises ValueError, on a
\* table that has the price and volume columns
ta_indicator_raises(indicator_name, params) ==
    IF indicator_name \in {"sma", "ema", "rsi", "bollinger"}
    THEN <<"length">> \notin Keys(params) \/ Get(params, <<"length">>) <= 0
    ELSE indicator_name \notin {"vwap", "macd"}

IndicatorError == "ValueError: indicator"

\* str.upper() on an indicator type
upper(t) ==
    CASE t = "sma" -> "SMA" [] t = "ema" -> "EMA" [] t = "rsi" -> "RSI"
      [] t = "macd" -> "MACD" [] t = "vwap" -> "VWAP"
      [] t = "bollinger" -> "BOLLINGER"

\* apply_indicators.py:26-92, the names of the columns ta_indicator returns
\* (parameters left out take their defaults)
IndicatorColumns(t, params) ==
    LET length == ToString(Get(params, <<"length">>))
        fast == IF <<"fast">> \in Keys(params)
                THEN ToString(Get(params, <<"fast">>)) ELSE "12"
        tail == "_" \o fast \o "_26_9"
    IN CASE t \in {"sma", "ema", "rsi"} -> <<upper(t) \o "_" \o length>>
         [] t = "bollinger" ->
                [x \in 1..5 |-> <<"BBL_", "BBM_", "BBU_", "BBB_", "BBP_">>[x] \o length]
         [] t = "macd" -> <<"MACD" \o tail, "MACDs" \o tail, "MACDh" \o tail>>
         [] t = "vwap" -> <<"VWAP_D">>

\* The values of an indicator column: NaN on the first row (warm-up)
IndicatorSeries(table) ==
    [j \in DOMAIN table["close"] |-> IF j = 1 THEN NaN ELSE Cell(2)]

\* optimize.py:130, pd.concat([df_copy, result], axis=1)
RECURSIVE concat(_, _)
concat(table, names) ==
    IF names = << >> THEN table
    ELSE concat(AddColumn(table, Head(names), IndicatorSeries(table)), Tail(names))

\* optimize.py:111-126, the entry of column_mapping an indicator adds
MappingOf(ind_config) ==
    LET t == ind_config.type
        actual == upper(t) \o "_" \o ToString(Get(ind_config.params, <<"length">>))
    IN IF <<"length">> \notin Keys(ind_config.params) \/ t \notin {"sma", "rsi", "ema"}
       THEN << >>
       ELSE IF t = "sma" /\ ind_config.index # ""
       THEN << <<upper(t) \o "_" \o ind_config.index \o "_LENGTH", actual>> >>
       ELSE << <<upper(t) \o "_LENGTH", actual>> >>

\* optimize.py:103-133, the loop over indicator_params.items(): the name
\* `params` is rebound to each indicator's own params (line 105), and
\* df_copy to the table pd.concat returns (line 130), a new object.
RECURSIVE ApplyIndicators(_, _)
ApplyIndicators(ip, acc) ==
    IF ip = << >> THEN Return(acc)
    ELSE LET ind_config == Head(ip)[2]
             entry == MappingOf(ind_config)
         IN IF ta_indicator_raises(ind_config.type, ind_config.params)
            THEN Raise(IndicatorError)
            ELSE ApplyIndicators(Tail(ip),
                    [params |-> ind_config.params,
                     df_copy |-> concat(acc.df_copy,
                                    IndicatorColumns(ind_config.type, ind_config.params)),
                     rebound |-> TRUE,
                     column_mapping |->
                         IF entry = << >> THEN acc.column_mapping
                         ELSE Set(acc.column_mapping, entry[1][1], entry[1][2])])

\* optimize.py:142-144, the loop over column_mapping.items() for one operand
RECURSIVE MapColumn(_, _)
MapColumn(column, mapping) ==
    IF mapping = << >> THEN column
    ELSE MapColumn(IF column = Head(mapping)[1] THEN Head(mapping)[2] ELSE column,
                   Tail(mapping))

\* optimize.py:140-160, the column references of a list of conditions
update_columns(conditions, mapping) ==
    [x \in DOMAIN conditions |->
        [conditions[x] EXCEPT
            !.left_operand.column = MapColumn(@, mapping),
            !.right_operand.column = MapColumn(@, mapping)]]

\* The loop undoing its work when a condition raises: the table comes back as
\* it was passed
RECURSIVE apply_conditions_rollback(_, _, _)
apply_conditions_rollback(table, name, conditions) ==
    IF conditions = << >> THEN [error |-> None, table |-> table]
    ELSE Only({IF ~r.ok THEN [error |-> r.error, table |-> table]
               ELSE Only({IF rest.error = None THEN rest
                          ELSE [error |-> rest.error, table |-> table] :
                          rest \in {apply_conditions_rollback(r.value, name,
                                                              Tail(conditions))}}) :
               r \in {apply_condition(table, name, Head(conditions))}})

\* apply_signals.py:28-45 / 62-79, the loop over the conditions on a table
\* that has the conditions column: the table as the loop left it, and the
\* error if it raised.
RECURSIVE apply_conditions(_, _, _)
apply_conditions(table, name, conditions) ==
    IF conditions = << >> THEN [error |-> None, table |-> table]
    ELSE Only({IF r.ok THEN apply_conditions(r.value, name, Tail(conditions))
               ELSE [error |-> r.error, table |-> table] :
               r \in {apply_condition(table, name, Head(conditions))}})

\* apply_signals.py:14-15 / 48-49
init_conditions(table, name) ==
    IF name \notin DOMAIN table
    THEN AddColumn(table, name, [j \in DOMAIN table["close"] |-> TRUE])
    ELSE table

\* optimize.py:164-165 on the table apply_buy_conditions left
sell_and_signals(b, sell_conditions) ==
    IF b.error # None THEN b
    ELSE Only({IF s.error # None THEN s
               ELSE [error |-> None, table |-> calculate_signals(s.table)] :
               s \in {apply_conditions(init_conditions(b.table, "sell_conditions"),
                                       "sell_conditions", sell_conditions)}})

\* optimize.py:163-165, all of them changing df_copy in place
Evaluate(table, buy_conditions, sell_conditions) ==
    Only({sell_and_signals(b, sell_conditions) :
          b \in {apply_conditions(init_conditions(table, "buy_conditions"),
                                  "buy_conditions", buy_conditions)}})

\* What the caller's object is after the callee changed its working object:
\* the working object itself when it is the caller's object
after_alias(original, changed) == changed

\* optimize.py:54, df.copy(), and 136-137, deepcopy(): the working object is
\* an object of its own, the caller's object keeps its value.
after_copy(original, changed) == original

\* optimize.py:167-179, and the caller's arguments after the call; evaluated
\* is what lines 163-165 left
backtest_and_return(table, buy_conditions, sell_conditions, rest, applied, current_buy_conditions, current_sell_conditions, evaluated) ==
    [result |-> IF evaluated.error # None THEN Raise(evaluated.error)
                ELSE IF ~rest.ok THEN rest
                ELSE Return([params |-> applied.params,
                             performance |-> rest.value]),
     df |-> IF applied.rebound THEN table
            ELSE after_copy(table, evaluated.table),
     buy_conditions |-> after_copy(buy_conditions, current_buy_conditions),
     sell_conditions |-> after_copy(sell_conditions, current_sell_conditions)]

\* optimize.py:135-179; applied is what the loop over the indicators left
conditions_to_return(table, buy_conditions, sell_conditions, rest, applied) ==
    Only({backtest_and_return(table, buy_conditions, sell_conditions, rest,
                              applied, cs[1], cs[2], evaluated) :
          cs \in {<<update_columns(buy_conditions, applied.column_mapping),
                    update_columns(sell_conditions, applied.column_mapping)>>},
          evaluated \in
              {Evaluate(applied.df_copy,
                        update_columns(buy_conditions, applied.column_mapping),
                        update_columns(sell_conditions, applied.column_mapping))}})

\* optimize.py:39-179: what the call returns or raises, and the caller's
\* arguments after it.  rest is what lines 170-173 give on the run's table:
\* the summary of the trades, or the error backtest() raised.
run_backtest_with_params(table, params, buy_conditions, sell_conditions, rest) ==
    Only({IF ~applied.ok
          THEN [result |-> applied, df |-> table,
                buy_conditions |-> buy_conditions,
                sell_conditions |-> sell_conditions]
          ELSE conditions_to_return(table, buy_conditions, sell_conditions,
                                    rest, applied.value) :
          applied \in
              {ApplyIndicators(
                   GroupParams(params, [indicator_params |-> << >>,
                                        trading_params |-> << >>]).indicator_params,
                   [params |-> params, df_copy |-> table, rebound |-> FALSE,
                    column_mapping |-> << >>])}})

\* The try/except around one run with the except branch losing the rows
\* collected so far
try_result_dropping(st, j, r) ==
    IF r.ok
    THEN [st EXCEPT !.results = Append(@, r.value), !.origin = Append(@, j)]
    ELSE [results |-> << >>, origin |-> << >>, errors |-> st.errors \cup {j}]

\* optimize.py:219-223 and 227-231: try: results.append(result)
\* except Exception: print(...)
try_result(st, j, r) ==
    IF r.ok
    THEN [st EXCEPT !.results = Append(@, r.value), !.origin = Append(@, j)]
    ELSE [st EXCEPT !.errors = @ \cup {j}]

\* a >= b for profit factors
PFGreaterEq(a, b) == a[1] * b[2] >= b[1] * a[2]

\* The ranking with generation order as the secondary key: a stable
\* descending sort by profit factor.
RECURSIVE InsertByProfitFactor(_, _)
InsertByProfitFactor(sorted, t) ==
    IF sorted = << >> THEN <<t>>
    ELSE IF PFGreaterEq(Head(sorted).metric.profit_factor, t.metric.profit_factor)
         THEN <<Head(sorted)>> \o InsertByProfitFactor(Tail(sorted), t)
         ELSE <<t>> \o sorted

RECURSIVE sort_values_profit_factor(_)
sort_values_profit_factor(tbl) ==
    IF tbl = << >> THEN << >>
    ELSE InsertByProfitFactor(
             sort_values_profit_factor(SubSeq(tbl, 1, Len(tbl) - 1)),
             tbl[Len(tbl)])

IsDescending(tbl) ==
    \A x \in 1..(Len(tbl) - 1) :
        PFGreaterEq(tbl[x].metric.profit_factor, tbl[x + 1].metric.profit_factor)

\* The rows left in the order they were collected
unsorted(tbl) == {tbl}

\* optimize.py:253, sort_values(by='metric_profit_factor', ascending=False)
\* with the default kind='quicksort', which is not stable: the tables it can
\* give are the rearrangements of the rows that descend by profit factor.
sort_values_descending(tbl) ==
    {t \in {[x \in DOMAIN tbl |-> tbl[p[x]]] : p \in Permutations(DOMAIN tbl)} :
        IsDescending(t)}

\* optimize.py:236-248: the columns param_<key> and metric_<key> of a row
flat_results(res) ==
    [r \in DOMAIN res |-> [param |-> res[r].params, metric |-> res[r].performance]]

\* The grids of the sweep
Lengths == <<0, 5>>
Grids ==
    {<< <<<<"tp">>, <<1, 2>>>>, <<<<"sl">>, <<1>>>> >>,
     << <<<<"sma", "1", "length">>, Lengths>>, <<<<"tp">>, <<1, 2>>>> >>,
     << <<<<"sma", "1", "length">>, <<5>>>>, <<<<"sma", "2", "length">>, <<8, 0>>>>,
        <<<<"tp">>, <<1>>>> >>,
     << <<<<"rsi", "length">>, <<14>>>>, <<<<"risk", "pct">>, <<1, 2, 3>>>> >>,
     << <<<<"foo", "1", "period">>, <<3>>>>, <<<<"macd", "fast">>, <<12, 0>>>> >>,
     << >>}

\* The trades tables a run's backtest returns: the sentinel, or closed trades
SweepTrades ==
    {create_empty_result,
     <<[entry_time |-> 2, exit_time |-> 3, perc_chg |-> 5]>>,
     <<[entry_time |-> 2, exit_time |-> 3, perc_chg |-> -4]>>,
     <<[entry_time |-> 2, exit_time |-> 2, perc_chg |-> 5],
       [entry_time |-> 3, exit_time |-> 4, perc_chg |-> -4]>>}

\* backtest.py:92, df.iloc[i].entry_price on a table without that column
BacktestError == "AttributeError: entry_price"

\* What lines 170-173 give: the error of backtest(), or the summary of the
\* trades with the default balance and risk
Rests ==
    {Raise(BacktestError)} \cup
    {Return(calculate_performance_summary(t, initial_balance, risk_per_trade)) :
        t \in SweepTrades}

\* The bar tables and the condition templates of the sweep
SweepTables ==
    {[close |-> <<Cell(1), Cell(3)>>],
     [close |-> <<Cell(3), Cell(2), Cell(1)>>, volume |-> <<Cell(1), Cell(1), Cell(1)>>]}
Operand(column, k) == [column |-> column, shift |-> k]
Templates ==
    {[buy_conditions |-> << >>, sell_conditions |-> << >>],
     [buy_conditions |->
          <<[left_operand |-> Operand("close", 0), comparator |-> ">",
             right_operand |-> Operand("close", 1)]>>,
      sell_conditions |->
          <<[left_operand |-> Operand("close", 0), comparator |-> "<",
             right_operand |-> Operand("close", 1)]>>],
     [buy_conditions |->
          <<[left_operand |-> Operand("close", 0), comparator |-> ">",
             right_operand |-> Operand("SMA_1_LENGTH", 0)]>>,
      sell_conditions |->
          <<[left_operand |-> Operand("close", 1), comparator |-> "<=",
             right_operand |-> Operand("SMA_1_LENGTH", 0)]>>],
     [buy_conditions |->
          <<[left_operand |-> Operand("RSI_LENGTH", 0), comparator |-> "!=",
             right_operand |-> Operand("close", 0)]>>,
      sell_conditions |-> << >>]}

IdleSweep ==
    /\ opc = "idle"
    /\ param_ranges = << >>
    /\ use_parallel = FALSE
    /\ all_combinations = << >>
    /\ next_combo = 0
    /\ waiting = {}
    /\ outcome = << >>
    /\ results = << >>
    /\ origin = << >>
    /\ errors = {}
    /\ results_flat_df = << >>
    /\ base = EmptyDict

InitSweep ==
    /\ opc = "optimize"
    /\ param_ranges \in Grids
    /\ use_parallel \in BOOLEAN
    /\ all_combinations = << >>
    /\ next_combo = 0
    /\ waiting = {}
    /\ outcome = << >>
    /\ results = << >>
    /\ origin = << >>
    /\ errors = {}
    /\ results_flat_df = << >>
    /\ \E t \in SweepTables, c \in Templates :
         base = [df |-> t, buy_conditions |-> c.buy_conditions,
                 sell_conditions |-> c.sell_conditions]

\* optimize.py:199-216: the combinations, then the branch; the parallel
\* branch submits one future per combination.
Optimize ==
    /\ opc = "optimize"
    /\ all_combinations' = generate_parameter_combinations(param_ranges)
    /\ outcome' = [j \in DOMAIN all_combinations' |-> << >>]
    /\ IF use_parallel /\ Len(all_combinations') > 1
       THEN /\ opc' = "parallel"
            /\ waiting' = DOMAIN all_combinations'
            /\ UNCHANGED next_combo
       ELSE /\ opc' = "sequential"
            /\ next_combo' = 1
            /\ UNCHANGED waiting
    /\ UNCHANGED <<param_ranges, use_parallel, results, origin, errors,
                   results_flat_df, base>>
    /\ UNCHANGED notSweep

\* optimize.py:226-231, one iteration
SequentialRun ==
    /\ opc = "sequential"
    /\ next_combo <= Len(all_combinations)
    /\ \E rest \in Rests :
       \E call \in {run_backtest_with_params(base.df,
                        all_combinations[next_combo], base.buy_conditions,
                        base.sell_conditions, rest)} :
         LET r == call.result
             st == try_result([results |-> results, origin |-> origin,
                               errors |-> errors], next_combo, r)
         IN /\ outcome' = [outcome EXCEPT ![next_combo] = <<r>>]
            /\ base' = [df |-> call.df, buy_conditions |-> call.buy_conditions,
                        sell_conditions |-> call.sell_conditions]
            /\ results' = st.results
            /\ origin' = st.origin
            /\ errors' = st.errors
    /\ next_combo' = next_combo + 1
    /\ UNCHANGED <<opc, param_ranges, use_parallel, all_combinations, waiting,
                   results_flat_df>>
    /\ UNCHANGED notSweep

\* optimize.py:226, the loop is exhausted
SequentialDone ==
    /\ opc = "sequential"
    /\ next_combo > Len(all_combinations)
    /\ opc' = "flatten"
    /\ UNCHANGED <<param_ranges, use_parallel, all_combinations, next_combo,
                   waiting, outcome, results, origin, errors, results_flat_df,
                   base>>
    /\ UNCHANGED notSweep

\* optimize.py:208-215, a worker process runs the call of one future on its
\* own (pickled) arguments
Worker ==
    /\ opc = "parallel"
    /\ \E j \in DOMAIN outcome, rest \in Rests :
         /\ outcome[j] = << >>
         /\ outcome' = [outcome EXCEPT ![j] =
                <<run_backtest_with_params(base.df, all_combinations[j],
                      base.buy_conditions, base.sell_conditions, rest).result>>]
    /\ UNCHANGED <<opc, param_ranges, use_parallel, all_combinations,
                   next_combo, waiting, results, origin, errors,
                   results_flat_df, base>>
    /\ UNCHANGED notSweep

\* The collection loop with the try around the whole loop: the first future
\* that raised ends it
AsCompletedUntilError ==
    /\ opc = "parallel"
    /\ \E j \in waiting :
         /\ outcome[j] # << >>
         /\ LET st == try_result([results |-> results, origin |-> origin,
                                  errors |-> errors], j, outcome[j][1])
            IN /\ results' = st.results
               /\ origin' = st.origin
               /\ errors' = st.errors
         /\ waiting' = IF outcome[j][1].ok THEN waiting \ {j} ELSE {}
    /\ UNCHANGED <<opc, param_ranges, use_parallel, all_combinations,
                   next_combo, outcome, results_flat_df, base>>
    /\ UNCHANGED notSweep

\* optimize.py:218-223, as_completed yields a finished future
AsCompleted ==
    /\ opc = "parallel"
    /\ \E j \in waiting :
         /\ outcome[j] # << >>
         /\ LET st == try_result([results |-> results, origin |-> origin,
                                  errors |-> errors], j, outcome[j][1])
            IN /\ results' = st.results
               /\ origin' = st.origin
               /\ errors' = st.errors
         /\ waiting' = waiting \ {j}
    /\ UNCHANGED <<opc, param_ranges, use_parallel, all_combinations,
                   next_combo, outcome, results_flat_df, base>>
    /\ UNCHANGED notSweep

\* The parallel branch as if it left the with block while futures are pending
ParallelDoneEarly ==
    /\ opc = "parallel"
    /\ opc' = "flatten"
    /\ UNCHANGED <<param_ranges, use_parallel, all_combinations, next_combo,
                   waiting, outcome, results, origin, errors, results_flat_df,
                   base>>
    /\ UNCHANGED notSweep

\* optimize.py:218, every future was yielded; the executor shuts down
ParallelDone ==
    /\ opc = "parallel"
    /\ waiting = {}
    /\ opc' = "flatten"
    /\ UNCHANGED <<param_ranges, use_parallel, all_combinations, next_combo,
                   waiting, outcome, results, origin, errors, results_flat_df,
                   base>>
    /\ UNCHANGED notSweep

\* optimize.py:233-255
Flatten ==
    /\ opc = "flatten"
    /\ results_flat_df' \in sort_values_descending(flat_results(results))
    /\ opc' = "returned"
    /\ UNCHANGED <<param_ranges, use_parallel, all_combinations, next_combo,
                   waiting, outcome, results, origin, errors, base>>
    /\ UNCHANGED notSweep

-----------------------------------------------------------------------------
(* optimize() called twice on one input, once in each mode.  A run works on  *)
(* its own copy of the table and of the conditions (optimize.py:54, 136-137) *)
(* and reads nothing else, so the run of a combination gives in the second   *)
(* call what it gave in the first: request holds the outcomes of the first   *)
(* call, replay the table it returned.                                       *)

InitModes ==
    /\ InitSweep
    /\ rpc = "first"
    /\ request = << >>
    /\ replay = << >>
    /\ responses = << >>

\* optimize.py:226-231, one iteration
SequentialRunOf ==
    /\ SequentialRun
    /\ rpc = "second" => outcome'[next_combo] = request[next_combo]

\* optimize.py:208-215, one worker
WorkerOf ==
    /\ Worker
    /\ rpc = "second" =>
         \A j \in DOMAIN outcome : outcome'[j] # outcome[j] => outcome'[j] = request[j]

\* The caller keeps the table optimize() returned and calls it again on the
\* same arguments with the other value of use_parallel
OtherMode ==
    /\ rpc = "first"
    /\ opc = "returned"
    /\ rpc' = "second"
    /\ request' = outcome
    /\ replay' = results_flat_df
    /\ use_parallel' = ~use_parallel
    /\ opc' = "optimize"
    /\ all_combinations' = << >>
    /\ next_combo' = 0
    /\ waiting' = {}
    /\ outcome' = << >>
    /\ results' = << >>
    /\ origin' = << >>
    /\ errors' = {}
    /\ results_flat_df' = << >>
    /\ UNCHANGED <<param_ranges, base, responses>>
    /\ UNCHANGED <<btVars, evVars, psVars, acVars>>

-----------------------------------------------------------------------------
(* generate_parameter_combinations on its own, on any grid of up to MaxKeys  *)
(* keys with up to MaxValues candidate values each (none, or repeated ones,  *)
(* included).                                                                *)

GridKeys == <<<<"tp">>, <<"sl">>, <<"sma", "1", "length">>, <<"rsi", "length">>>>
GridValues == {1, 2}
ValueLists == UNION {[1..k -> GridValues] : k \in 0..MaxValues}

InitGrid ==
    /\ opc = "generate"
    /\ \E k \in 0..MaxKeys : \E v \in [1..k -> ValueLists] :
         param_ranges = [p \in 1..k |-> <<GridKeys[p], v[p]>>]
    /\ use_parallel = FALSE
    /\ all_combinations = << >>
    /\ next_combo = 0
    /\ waiting = {}
    /\ outcome = << >>
    /\ results = << >>
    /\ origin = << >>
    /\ errors = {}
    /\ results_flat_df = << >>
    /\ base = EmptyDict

\* optimize.py:13-37
GenerateCombinations ==
    /\ opc = "generate"
    /\ all_combinations' = generate_parameter_combinations(param_ranges)
    /\ opc' = "generated"
    /\ UNCHANGED <<param_ranges, use_parallel, next_combo, waiting, outcome,
                   results, origin, errors, results_flat_df, base>>
    /\ UNCHANGED notSweep

-----------------------------------------------------------------------------
(* generate_parameter_combinations on a grid whose values are nested.  A   *)
(* value of the request is a number, a string, a list or a dict.           *)

Number(v) == <<"number", v>>
Str(v) == <<"str", v>>
List(items) == <<"list", items>>
Mapping(items) == <<"dict", items>>
Tag(value) == value[1]
Items(value) == value[2]

\* What itertools.product draws from one value of param_ranges: the elements
\* of a list, the keys of a dict
iterate(value) ==
    IF Tag(value) = "dict"
    THEN [x \in DOMAIN Items(value) |-> Str(Items(value)[x][1])]
    ELSE Items(value)

\* optimize.py:25-29
product_of_values(ranges) ==
    generate_parameter_combinations(
        [p \in DOMAIN ranges |-> <<ranges[p][1], iterate(ranges[p][2])>>])

NumberLists == {List([x \in DOMAIN v |-> Number(v[x])]) : v \in ValueLists}

\* a list of scalars; one nested mapping; a list of two objects
NestedValues(name) ==
    CASE name = "tp" -> NumberLists
      [] name = "rsi" -> {Mapping(<< <<"length", l>> >>) : l \in NumberLists}
      [] name = "sma" ->
             {List(<<Mapping(<< <<"length", l1>> >>), Mapping(<< <<"length", l2>> >>)>>) :
                 l1 \in NumberLists, l2 \in NumberLists}

RECURSIVE NestedGrids(_)
NestedGrids(names) ==
    IF names = << >> THEN {<< >>}
    ELSE {<< <<<<Head(names)>>, v>> >> \o rest :
             v \in NestedValues(Head(names)), rest \in NestedGrids(Tail(names))}

InitNested ==
    /\ opc = "generate_nested"
    /\ \E names \in {<<"tp">>, <<"rsi">>, <<"sma">>, <<"sma", "tp">>,
                     <<"tp", "rsi">>, <<"sma", "rsi", "tp">>} :
           param_ranges \in NestedGrids(names)
    /\ use_parallel = FALSE
    /\ all_combinations = << >>
    /\ next_combo = 0
    /\ waiting = {}
    /\ outcome = << >>
    /\ results = << >>
    /\ origin = << >>
    /\ errors = {}
    /\ results_flat_df = << >>
    /\ base = EmptyDict

\* optimize.py:199
GenerateNested ==
    /\ opc = "generate_nested"
    /\ all_combinations' = product_of_values(param_ranges)
    /\ opc' = "generated"
    /\ UNCHANGED <<param_ranges, use_parallel, next_combo, waiting, outcome,
                   results, origin, errors, results_flat_df, base>>
    /\ UNCHANGED notSweep

-----------------------------------------------------------------------------
(* calculate_performance_summary called on a trade table of its own *)

MaxTrades == 4

\* pnl percentages, in hundredths (2 is 0.02)
PnlValues == {-2, -1, 0, 2, 3}
\* seconds between the entry and the exit of the trades of a table
HoldTimes == {0, 90}
Balances == {500, 10000}
\* risk_per_trade in hundredths: the default 0.01, and 0.5
Risks == {1, 50}

\* A table without a pnl column, and one without the time columns
NoPnlColumn == <<[entry_time |-> 100, exit_time |-> 190]>>
NoTimeColumns == <<[perc_chg |-> 2]>>

KeyError(column) == "KeyError: " \o column

IdleSummary ==
    /\ spc = "idle"
    /\ trades_arg = << >>
    /\ balance_arg = 0
    /\ risk_arg = 0
    /\ summary = None

InitSummary ==
    /\ spc = "call"
    /\ \/ \E len \in 0..MaxTrades : \E pnl \in [1..len -> PnlValues] :
            \E hold \in HoldTimes :
                trades_arg = [k \in 1..len |->
                                 [entry_time |-> 100 * k,
                                  exit_time |-> 100 * k + hold,
                                  perc_chg |-> pnl[k]]]
       \/ trades_arg \in {create_empty_result, NoPnlColumn, NoTimeColumns}
    /\ balance_arg \in Balances
    /\ risk_arg \in Risks
    /\ summary = None

\* performance_summary.py:45-143: the call, with the columns lines 88-90 write
\* to the caller's table; a missing time column raises at line 88, a missing
\* pnl column at line 109
SummaryCall ==
    /\ spc = "call"
    /\ IF trades_arg = << >>
       THEN /\ summary' = Return(calculate_performance_summary(
                                    trades_arg, balance_arg, risk_arg))
            /\ trades_arg' = trades_arg
       ELSE IF "entry_time" \notin DOMAIN trades_arg[1]
       THEN /\ summary' = Raise(KeyError("entry_time"))
            /\ trades_arg' = trades_arg
       ELSE IF "exit_time" \notin DOMAIN trades_arg[1]
       THEN /\ summary' = Raise(KeyError("exit_time"))
            /\ trades_arg' = trades_arg
       ELSE IF {"perc_chg", "pnl_perc"} \cap DOMAIN trades_arg[1] = {}
       THEN /\ summary' = Raise(KeyError("pnl_perc"))
            /\ trades_arg' = with_durations(trades_arg)
       ELSE /\ summary' = Return(calculate_performance_summary(
                                    trades_arg, balance_arg, risk_arg))
            /\ trades_arg' = with_durations(trades_arg)
    /\ spc' = IF summary'.ok THEN "returned" ELSE "raised"
    /\ UNCHANGED <<balance_arg, risk_arg>>
    /\ UNCHANGED notSummary

-----------------------------------------------------------------------------
(* One call of apply_buy_conditions or apply_sell_conditions on a whole list  *)
(* of conditions                                                             *)

\* The conditions of the lists: close against the indicator or against its
\* own earlier value, one naming a column the table lacks, one with a
\* comparator that is none
ListConditions ==
    {[left_operand |-> Operand("close", 0), comparator |-> op, right_operand |-> r] :
        op \in {">", "<=", "!="},
        r \in {Operand("sma", 0), Operand("close", 1)}}
    \cup {[left_operand |-> Operand("volume_ma", 0), comparator |-> ">",
           right_operand |-> Operand("close", 0)],
          [left_operand |-> Operand("close", 0), comparator |-> "=>",
           right_operand |-> Operand("sma", 0)]}

IdleConditions ==
    /\ fpc = "idle"
    /\ cond_table = << >>
    /\ cond_name = None
    /\ cond_list = << >>
    /\ cond_error = None

\* The table comes with no conditions column, or with the one an earlier call
\* left
InitConditions ==
    /\ fpc = "call"
    /\ cond_name \in {"buy_conditions", "sell_conditions"}
    /\ \E k \in 1..MaxRows : \E t \in BarTables(k) : \E stale \in BOOLEAN :
         cond_table = IF stale THEN AddColumn(t, cond_name, Stale(k)) ELSE t
    /\ \E len \in 0..MaxConds : cond_list \in [1..len -> ListConditions]
    /\ cond_error = None

\* apply_signals.py:13-45 / 47-79: the whole call on the caller's table
ApplyConditions ==
    /\ fpc = "call"
    /\ \E out \in {apply_conditions(init_conditions(cond_table, cond_name),
                                    cond_name, cond_list)} :
         /\ cond_table' = out.table
         /\ cond_error' = out.error
         /\ fpc' = IF out.error = None THEN "returned" ELSE "raised"
    /\ UNCHANGED <<cond_name, cond_list>>
    /\ UNCHANGED notConditions

-----------------------------------------------------------------------------
(* Specifications *)

NextBT ==
    \/ BacktestEntry
    \/ ForBar
    \/ BuyExit
    \/ SellExit
    \/ BuyEntry
    \/ SellEntry
    \/ Combine
    \/ Summarize

NextEval ==
    \/ ApplyBuyConditions
    \/ BuyCondition
    \/ BuyReturn
    \/ ApplySellConditions
    \/ SellCondition
    \/ SellReturn
    \/ CalculateSignals

\* backtest() and the summary of its result
\* backtest() twice on one bar table, the second time with the signals of one
\* side changed
SideBars == 3
\* <<low, high>> of a bar: quiet, through the lower targets, through the upper
\* targets
Shapes == {<<9700, 10300>>, <<9400, 10300>>, <<9700, 10600>>}

SideTables(k) ==
    [1..k -> {[name |-> 0, low |-> sh[1], high |-> sh[2], entry_price |-> 10000,
               buy_signal |-> b, sell_signal |-> s] :
              sh \in Shapes, b \in {0, 1}, s \in {0, 1}}]

Labelled(rows) == [j \in DOMAIN rows |-> [rows[j] EXCEPT !.name = j]]

WithSignals(rows, column, values) ==
    [j \in DOMAIN rows |-> [rows[j] EXCEPT ![column] = values[j]]]

InitSides ==
    /\ rpc = "first"
    /\ \E k \in 1..SideBars : \E t \in SideTables(k) :
       \E tpv \in TpValues : \E slv \in SlValues :
           request = [df |-> Labelled(t), tp |-> tpv, sl |-> slv]
    /\ replay = << >>
    /\ responses = << >>

BacktestFirst ==
    /\ rpc = "first"
    /\ responses' = <<backtest(request.df, request.tp, request.sl)>>
    /\ rpc' = "change"
    /\ UNCHANGED <<request, replay>>
    /\ UNCHANGED notRuns

\* the caller writes other signals of one side into a copy of the table
ChangeSignals ==
    /\ rpc = "change"
    /\ \E column \in {"buy_signal", "sell_signal"} :
       \E values \in [DOMAIN request.df -> {0, 1}] :
           replay' = [request EXCEPT !.df = WithSignals(@, column, values)]
    /\ rpc' = "second"
    /\ UNCHANGED <<request, responses>>
    /\ UNCHANGED notRuns

BacktestSecond ==
    /\ rpc = "second"
    /\ responses' = Append(responses, backtest(replay.df, replay.tp, replay.sl))
    /\ rpc' = "done"
    /\ UNCHANGED <<request, replay>>
    /\ UNCHANGED notRuns

\* backtest() bar by bar on a whole table, the last bar included in the table.
\* replay holds the locals of the call: the loop index i, the list of the
\* indexes the loop body has run on, and the six locals of lines 123-128.
InitTable ==
    /\ rpc = "backtest"
    /\ \E k \in 1..SideBars : \E t \in SideTables(k) :
       \E tpv \in TpValues : \E slv \in SlValues :
           request = [df |-> Labelled(t), tp |-> tpv, sl |-> slv]
    /\ replay = << >>
    /\ responses = << >>

\* backtest.py:119-128
EnterBacktest ==
    /\ rpc = "backtest"
    /\ IF /\ {k \in DOMAIN request.df : request.df[k].buy_signal > 0} = {}
          /\ {k \in DOMAIN request.df : request.df[k].sell_signal > 0} = {}
       THEN /\ responses' = <<create_empty_result>>
            /\ rpc' = "returned"
            /\ UNCHANGED replay
       ELSE /\ replay' = [i |-> -1, examined |-> << >>, locals |-> LoopStart]
            /\ rpc' = "for"
            /\ UNCHANGED responses
    /\ UNCHANGED request
    /\ UNCHANGED notRuns

\* The loop as for i in range(len(df)): the last bar is exit-checked too
\* (an entry on it has no next bar to take its time from)
ExamineBarThroughLast ==
    /\ rpc = "for"
    /\ replay.i + 1 <= Len(request.df) - 1
    /\ replay' =
         [i |-> replay.i + 1,
          examined |-> Append(replay.examined, replay.i + 1),
          locals |->
              IF replay.i + 1 <= Len(request.df) - 2
              THEN iteration(request.df[replay.i + 2], request.df[replay.i + 3].name,
                             replay.locals, request.tp, request.sl)
              ELSE iteration([request.df[replay.i + 2] EXCEPT !.buy_signal = 0,
                                                              !.sell_signal = 0],
                             0, replay.locals, request.tp, request.sl)]
    /\ UNCHANGED <<rpc, request, responses>>
    /\ UNCHANGED notRuns

\* backtest.py:130-145, one pass of for i in range(len(df) - 1); df.iloc[i] is
\* request.df[i + 1]
ExamineBar ==
    /\ rpc = "for"
    /\ replay.i + 1 <= Len(request.df) - 2
    /\ replay' =
         [i |-> replay.i + 1,
          examined |-> Append(replay.examined, replay.i + 1),
          locals |-> iteration(request.df[replay.i + 2],
                               request.df[replay.i + 3].name,
                               replay.locals, request.tp, request.sl)]
    /\ UNCHANGED <<rpc, request, responses>>
    /\ UNCHANGED notRuns

\* backtest.py:147-151, once the range is exhausted
ReturnTrades ==
    /\ rpc = "for"
    /\ ~ENABLED ExamineBar
    /\ responses' =
         <<IF Len(replay.locals.buy_trades \o replay.locals.sell_trades) > 0
           THEN sort_values_entry_time(replay.locals.buy_trades
                                       \o replay.locals.sell_trades)
           ELSE create_empty_result>>
    /\ rpc' = "returned"
    /\ UNCHANGED <<request, replay>>
    /\ UNCHANGED notRuns

\* The request handler run_backtest of main.py, twice on one request.  A table
\* carries its index (the bar times) as the column "index".
PipeBars == 5
NumericColumns == {"open", "high", "low", "close", "sma", "entry_price"}

\* prepare_data.py:34-36
get_entry_price(table) ==
    [c \in DOMAIN table \cup {"entry_price"} |->
        [j \in 1..(Len(table["open"]) - 1) |->
            IF c = "entry_price" THEN table["open"][j + 1] ELSE table[c][j]]]

\* DataFrame.dropna(inplace=True): the rows without a NaN cell, under their
\* index labels
dropna(table) ==
    LET kept == SelectSeq([j \in DOMAIN table["index"] |-> j],
                          LAMBDA j : \A c \in DOMAIN table \cap NumericColumns :
                                         table[c][j] # NaN)
    IN [c \in DOMAIN table |-> [k \in DOMAIN kept |-> table[c][kept[k]]]]

\* df.iloc[i] for every i, as backtest() reads the table
iloc(table) ==
    [j \in DOMAIN table["index"] |->
        [name |-> table["index"][j],
         low |-> table["low"][j][1], high |-> table["high"][j][1],
         entry_price |-> table["entry_price"][j][1],
         buy_signal |-> table["buy_signal"][j],
         sell_signal |-> table["sell_signal"][j]]]

\* The handler as if it took the table a previous request left behind
cached_dataframe(req) == IF req.df = << >> THEN req.file ELSE req.df

\* main.py:137, the table read from the file
load_csv(req) == req.file

\* main.py:187-204 on the table with its signals
backtest_and_summary(table, req) ==
    Only({[df |-> table,
           result |-> Return([trades |-> with_durations(t),
                              performance |-> calculate_performance_summary(
                                  t, initial_balance, risk_per_trade)])] :
          t \in {backtest(iloc(table), req.tp, req.sl)}})

\* main.py:139-204 on the loaded table
run_backtest(loaded, req) ==
    Only({IF ev.error # None
          THEN [df |-> ev.table, result |-> Raise(ev.error)]
          ELSE backtest_and_summary(dropna(ev.table), req) :
          ev \in {sell_and_signals(
                      apply_conditions(
                          init_conditions(dropna(get_entry_price(loaded)),
                                          "buy_conditions"),
                          "buy_conditions", req.buy_conditions),
                      req.sell_conditions)}})

Files(k) ==
    {[c \in {"index", "open", "high", "low", "close", "sma"} |->
        [j \in 1..k |->
            CASE c = "index" -> j
              [] c = "open" -> Cell(10000)
              [] c = "low" -> Cell(bars[j][1][1])
              [] c = "high" -> Cell(bars[j][1][2])
              [] c = "close" -> Cell(bars[j][2])
              [] c = "sma" -> Cell(2)]] :
     bars \in [1..k -> Shapes \X {1, 3}]}

BuyLists ==
    {<< >>,
     <<[left_operand |-> Operand("close", 0), comparator |-> ">",
        right_operand |-> Operand("sma", 0)]>>}

SellLists ==
    {<< >>,
     <<[left_operand |-> Operand("close", 0), comparator |-> "<=",
        right_operand |-> Operand("sma", 0)]>>,
     <<[left_operand |-> Operand("close", 0), comparator |-> "=>",
        right_operand |-> Operand("sma", 0)]>>}

\* The requests drawn have a condition on at least one side.
InitPipeline ==
    /\ rpc = "first"
    /\ \E k \in 1..PipeBars : \E f \in Files(k) :
       \E b \in BuyLists : \E s \in SellLists :
           /\ ~(b = << >> /\ s = << >>)
           /\ request = [file |-> f, df |-> << >>, buy_conditions |-> b,
                         sell_conditions |-> s, tp |-> 500, sl |-> 400]
    /\ replay = << >>
    /\ responses = << >>

\* main.py:122-208, one request; the second carries the same body
RunBacktest ==
    /\ rpc \in {"first", "second"}
    /\ \E out \in {run_backtest(load_csv(request), request)} :
           /\ request' = [request EXCEPT !.df = out.df]
           /\ responses' = Append(responses, out.result)
    /\ rpc' = IF rpc = "first" THEN "second" ELSE "done"
    /\ UNCHANGED replay
    /\ UNCHANGED notRuns

\* One per-combination run of the sweep on the table run_optimization loads
\* (main.py:233): bars without entry_price.  A frequency is the number of
\* base bars in a bucket.
RunBars == 4
Frequency == <<"timeframe">>

\* prepare_data.py:21-32 on bars one base period apart; a bucket carries the
\* time of its first bar
resample_df(table, freq) ==
    LET bars == Len(table["index"])
        bucket(b) == {j \in 1..bars : (j - 1) \div freq = b - 1}
        first(b) == (b - 1) * freq + 1
        last(b) == CHOOSE j \in bucket(b) : \A k \in bucket(b) : k <= j
    IN [c \in {"index", "open", "high", "low", "close", "volume"} |->
          [b \in 1..((bars + freq - 1) \div freq) |->
              CASE c = "index" -> table["index"][first(b)]
                [] c = "open" -> table["open"][first(b)]
                [] c = "high" ->
                     Cell(CHOOSE v \in {table["high"][j][1] : j \in bucket(b)} :
                              \A j \in bucket(b) : table["high"][j][1] <= v)
                [] c = "low" ->
                     Cell(CHOOSE v \in {table["low"][j][1] : j \in bucket(b)} :
                              \A j \in bucket(b) : table["low"][j][1] >= v)
                [] c = "close" -> table["close"][last(b)]
                [] c = "volume" ->
                     Cell(SumOf([j \in 1..Cardinality(bucket(b)) |->
                                    [v |-> table["volume"][first(b) + j - 1][1]]], "v"))]]

\* optimize.py:168-169, trading_params.get(key, 1.0)
trading_param(trading_params, key) ==
    IF key \in Keys(trading_params) THEN Get(trading_params, key) ELSE 100

\* optimize.py:168-173 on the table lines 163-165 left: backtest.py:92 and 106
\* read df.iloc[i].entry_price at the first signal the loop meets
backtest_and_performance(table, trading_params) ==
    IF "entry_price" \in DOMAIN table
    THEN Return(calculate_performance_summary(
                    backtest(iloc(table), trading_param(trading_params, <<"tp">>),
                             trading_param(trading_params, <<"sl">>)),
                    initial_balance, risk_per_trade))
    ELSE IF \E j \in 1..(Len(table["index"]) - 1) :
                table["buy_signal"][j] = 1 \/ table["sell_signal"][j] = 1
    THEN Raise(BacktestError)
    ELSE Return(calculate_performance_summary(create_empty_result,
                                              initial_balance, risk_per_trade))

\* optimize.py:39-179 for a combination without indicator parameters
run_on(table, params, buy_conditions, sell_conditions) ==
    Only({run_backtest_with_params(table, params, buy_conditions, sell_conditions,
              IF ev.error # None THEN Raise(ev.error)
              ELSE backtest_and_performance(ev.table,
                       GroupParams(params, [indicator_params |-> << >>,
                                            trading_params |-> << >>]).trading_params)
              ).result :
          ev \in {Evaluate(table, buy_conditions, sell_conditions)}})

BaseTables(k) ==
    {[c \in {"index", "open", "high", "low", "close", "volume"} |->
        [j \in 1..k |->
            CASE c = "index" -> j
              [] c = "open" -> Cell(10000)
              [] c = "low" -> Cell(bars[j][1][1])
              [] c = "high" -> Cell(bars[j][1][2])
              [] c = "close" -> Cell(bars[j][2])
              [] c = "volume" -> Cell(1)]] :
     bars \in [1..k -> Shapes \X {1, 3}]}

\* close against the close of the bar before
RunLists(comparator) ==
    {<< >>,
     <<[left_operand |-> Operand("close", 0), comparator |-> comparator,
        right_operand |-> Operand("close", 1)]>>}

Combinations ==
    {<< <<<<"tp">>, 500>>, <<<<"sl">>, 400>> >>,
     << <<Frequency, 2>>, <<<<"tp">>, 500>>, <<<<"sl">>, 400>> >>}

InitRun ==
    /\ rpc = "run"
    /\ \E k \in 2..RunBars : \E t \in BaseTables(k) : \E c \in Combinations :
       \E b \in RunLists(">") : \E s \in RunLists("<") :
           request = [df |-> t, params |-> c, buy_conditions |-> b,
                      sell_conditions |-> s]
    /\ replay = << >>
    /\ responses = << >>

\* optimize.py:227-228, result = run_backtest_with_params(df, params, ...)
RunWithParams ==
    /\ rpc = "run"
    /\ responses' = <<run_on(request.df, request.params, request.buy_conditions,
                             request.sell_conditions)>>
    /\ rpc' = "done"
    /\ UNCHANGED <<request, replay>>
    /\ UNCHANGED notRuns

\* The grouping of the keys of one combination, optimize.py:56-100 and
\* 168-169.  A key is the list of its parts between underscores.
ParamKeys ==
    {<<"tp">>, <<"sl">>, <<"timeframe">>, <<"sma">>, <<"sma", "1", "length">>,
     <<"sma", "2", "length">>, <<"rsi", "length">>, <<"macd", "fast", "1">>,
     <<"tp", "1">>, <<"risk", "pct">>, <<"foo", "2", "period">>}
ParamValues == {200, 300}

\* The combinations of up to MaxKeys distinct keys, in any order
ParamDicts ==
    UNION {{d \in [1..k -> ParamKeys \X ParamValues] :
               \A x, y \in 1..k : x # y => d[x][1] # d[y][1]} : k \in 0..MaxKeys}

InitGroup ==
    /\ rpc = "group"
    /\ request \in ParamDicts
    /\ replay = << >>
    /\ responses = << >>

\* optimize.py:56-100, then the reads of lines 168-169
GroupAndRead ==
    /\ rpc = "group"
    /\ \E g \in {GroupParams(request, [indicator_params |-> << >>,
                                       trading_params |-> << >>])} :
           responses' = <<[indicator_params |-> g.indicator_params,
                           trading_params |-> g.trading_params,
                           tp |-> trading_param(g.trading_params, <<"tp">>),
                           sl |-> trading_param(g.trading_params, <<"sl">>)]>>
    /\ rpc' = "done"
    /\ UNCHANGED <<request, replay>>
    /\ UNCHANGED notRuns

IdleRuns ==
    /\ rpc = "idle"
    /\ request = << >>
    /\ replay = << >>
    /\ responses = << >>

Init == InitBT /\ IdleEval /\ IdleSweep /\ IdleSummary /\ IdleConditions /\ IdleRuns

Next == NextBT

Spec == Init /\ [][Next]_vars

\* the condition evaluator on a bar table
InitEvalSpec == InitEval /\ IdleBT /\ IdleSweep /\ IdleSummary /\ IdleConditions /\ IdleRuns

SpecEval == InitEvalSpec /\ [][NextEval]_vars

\* calculate_signals alone
InitSignalsSpec == InitSignals /\ IdleBT /\ IdleSweep /\ IdleSummary /\ IdleConditions /\ IdleRuns

NextSignals == CalculateSignals

SpecSignals == InitSignalsSpec /\ [][NextSignals]_vars

\* optimize()
InitSweepSpec == InitSweep /\ IdleBT /\ IdleEval /\ IdleSummary /\ IdleConditions /\ IdleRuns

NextSweep ==
    \/ Optimize
    \/ SequentialRun
    \/ SequentialDone
    \/ Worker
    \/ AsCompleted
    \/ ParallelDone
    \/ Flatten

SpecSweep == InitSweepSpec /\ [][NextSweep]_vars

\* optimize() in both modes on one input
InitModesSpec == InitModes /\ IdleBT /\ IdleEval /\ IdleSummary /\ IdleConditions

NextModes ==
    \/ Optimize
    \/ SequentialRunOf
    \/ SequentialDone
    \/ WorkerOf
    \/ AsCompleted
    \/ ParallelDone
    \/ Flatten
    \/ OtherMode

SpecModes == InitModesSpec /\ [][NextModes]_vars

\* generate_parameter_combinations alone
InitGridSpec == InitGrid /\ IdleBT /\ IdleEval /\ IdleSummary /\ IdleConditions /\ IdleRuns

NextGrid == GenerateCombinations

SpecGrid == InitGridSpec /\ [][NextGrid]_vars

\* generate_parameter_combinations on nested grids
InitNestedSpec ==
    InitNested /\ IdleBT /\ IdleEval /\ IdleSummary /\ IdleConditions /\ IdleRuns

NextNested == GenerateNested

SpecNested == InitNestedSpec /\ [][NextNested]_vars

\* calculate_performance_summary alone
InitSummarySpec ==
    InitSummary /\ IdleBT /\ IdleEval /\ IdleSweep /\ IdleConditions /\ IdleRuns

NextSummary == SummaryCall

SpecSummary == InitSummarySpec /\ [][NextSummary]_vars

\* apply_buy_conditions / apply_sell_conditions on a whole list
InitConditionsSpec ==
    InitConditions /\ IdleBT /\ IdleEval /\ IdleSweep /\ IdleSummary /\ IdleRuns

NextConditions == ApplyConditions

SpecConditions == InitConditionsSpec /\ [][NextConditions]_vars

\* backtest() bar by bar on a whole table
InitTableSpec ==
    InitTable /\ IdleBT /\ IdleEval /\ IdleSweep /\ IdleSummary /\ IdleConditions

NextTable ==
    \/ EnterBacktest
    \/ ExamineBar
    \/ ReturnTrades

SpecTable == InitTableSpec /\ [][NextTable]_vars

\* the grouping of a combination's keys alone
InitGroupSpec ==
    InitGroup /\ IdleBT /\ IdleEval /\ IdleSweep /\ IdleSummary /\ IdleConditions

NextGroup == GroupAndRead

SpecGroup == InitGroupSpec /\ [][NextGroup]_vars

\* backtest() twice, the signals of one side changed in between
InitSidesSpec ==
    InitSides /\ IdleBT /\ IdleEval /\ IdleSweep /\ IdleSummary /\ IdleConditions

NextSides ==
    \/ BacktestFirst
    \/ ChangeSignals
    \/ BacktestSecond

SpecSides == InitSidesSpec /\ [][NextSides]_vars

\* the whole pipeline of a request, twice
InitPipelineSpec ==
    InitPipeline /\ IdleBT /\ IdleEval /\ IdleSweep /\ IdleSummary /\ IdleConditions

NextPipeline == RunBacktest

SpecPipeline == InitPipelineSpec /\ [][NextPipeline]_vars

\* one per-combination run
InitRunSpec ==
    InitRun /\ IdleBT /\ IdleEval /\ IdleSweep /\ IdleSummary /\ IdleConditions

NextRun == RunWithParams

SpecRun == InitRunSpec /\ [][NextRun]_vars

\* optimize() with its main thread and its worker processes running on: a
\* step that stays possible is taken.
SpecSweepFair == SpecSweep /\ WF_vars(NextSweep)

-----------------------------------------------------------------------------
(* Properties of backtest() *)

InLoop == pc \in {"buy_exit", "sell_exit", "buy_entry", "sell_entry", "for"} /\ i >= 0

\* Timestamps increase strictly, so a closed trade whose exit_time is the
\* current row's name was closed in this iteration, and an open trade whose
\* entry_time is the next row's name was opened in this iteration.
LongClosedAtBar == InLoop /\ buy_trades # << >> /\ Last(buy_trades).exit_time = row.name
ShortClosedAtBar == InLoop /\ sell_trades # << >> /\ Last(sell_trades).exit_time = row.name
LongOpenedAtBar == InLoop /\ in_buy_position /\ current_buy_trade.entry_time = next_name
ShortOpenedAtBar == InLoop /\ in_sell_position /\ current_sell_trade.entry_time = next_name

\* C1: each side has at most one open trade: whenever a step of backtest()
\* opens a trade on a side (the side's current trade is replaced by a trade
\* and the side is in position afterwards), that side was flat before the step.
C1_OneOpenTradePerSide ==
    [][ /\ (in_buy_position' /\ current_buy_trade' # current_buy_trade)
            => ~in_buy_position
        /\ (in_sell_position' /\ current_sell_trade' # current_sell_trade)
            => ~in_sell_position ]_vars

\* C1 witness: both sides hold a trade opened on an earlier bar while the
\* current bar carries a buy and a sell signal, and both entry steps have run.
C1_Witness ==
    /\ pc = "for" /\ i >= 1
    /\ row.buy_signal = 1 /\ row.sell_signal = 1
    /\ in_buy_position /\ current_buy_trade.entry_time < next_name
    /\ in_sell_position /\ current_sell_trade.entry_time < next_name

\* C2: every closed trade returned by backtest() has exit_time strictly
\* later than entry_time.
C2_ExitStrictlyAfterEntry ==
    (pc = "returned" /\ trades # create_empty_result)
        => \A k \in DOMAIN trades : trades[k].exit_time > trades[k].entry_time

\* C3: when a bar satisfies both the stop-loss and the take-profit test of an
\* open trade, the exit step closes the trade at sl_price with pnl -sl/100.
C3_StopLossFirst ==
    [][ /\ (pc = "buy_exit" /\ in_buy_position
             /\ row.low < current_buy_trade.sl_price
             /\ row.high > current_buy_trade.tp_price)
            => /\ ~in_buy_position'
               /\ Len(buy_trades') = Len(buy_trades) + 1
               /\ Last(buy_trades').exit_price = current_buy_trade.sl_price
               /\ Last(buy_trades').exit_price # current_buy_trade.tp_price
               /\ Last(buy_trades').perc_chg = (-1 * sl) \div 100
        /\ (pc = "sell_exit" /\ in_sell_position
             /\ row.high > current_sell_trade.sl_price
             /\ row.low < current_sell_trade.tp_price)
            => /\ ~in_sell_position'
               /\ Len(sell_trades') = Len(sell_trades) + 1
               /\ Last(sell_trades').exit_price = current_sell_trade.sl_price
               /\ Last(sell_trades').exit_price # current_sell_trade.tp_price
               /\ Last(sell_trades').perc_chg = (-1 * sl) \div 100 ]_vars

\* C3 witness: the long of the example (sl_price 96, tp_price 105) was
\* closed at 96 by a bar with low 95 and high 106.
C3_Witness ==
    /\ pc = "sell_exit"
    /\ LongClosedAtBar
    /\ row.low = 9500 /\ row.high = 10600
    /\ Last(buy_trades).sl_target = 9600 /\ Last(buy_trades).tp_target = 10500
    /\ Last(buy_trades).exit_price = 9600

\* C4 as stated: a side whose trade was closed at bar i opens no trade at bar i.
C4_NoCloseAndReopen ==
    /\ ~(LongClosedAtBar /\ LongOpenedAtBar)
    /\ ~(ShortClosedAtBar /\ ShortOpenedAtBar)

\* C4 amended: the exit check runs before the entry check, so no trade is
\* closed on the bar whose signal opened it (its exit_time is never before its
\* entry_time); a side whose trade was closed at bar i has opened a new trade
\* at bar i, once its entry step has run, exactly when the bar's signal is true.
C4_ExitBeforeEntry ==
    /\ \A t \in Range(buy_trades) \cup Range(sell_trades) :
          t.exit_time >= t.entry_time
    /\ (pc \in {"sell_entry", "for"} /\ LongClosedAtBar)
          => (LongOpenedAtBar <=> row.buy_signal = 1)
    /\ (pc = "for" /\ ShortClosedAtBar)
          => (ShortOpenedAtBar <=> row.sell_signal = 1)

\* C4 witness: a long was closed at this bar and a new long was opened by
\* the same bar's signal.
C4_Witness ==
    pc = "sell_entry" /\ LongClosedAtBar /\ LongOpenedAtBar /\ row.buy_signal = 1

\* C5: when both signal columns are all false, backtest() returns the
\* sentinel row and its summary has total_trades = 0, profit_factor = 0 and
\* final_balance = initial_balance (the summary has added the duration column
\* to the table by then).
C5_SentinelSummary ==
    (pc = "summarized" /\ no_signals)
        => /\ trades = with_durations(create_empty_result)
           /\ performance.total_trades = 0
           /\ performance.profit_factor = Ratio(0, 1)
           /\ performance.final_balance = Dec(initial_balance)

-----------------------------------------------------------------------------
(* Properties of the condition evaluator *)

\* The rows of the table where an operand of cond, once shifted, is NaN
UndefinedRows(table, cond) ==
    {j \in DOMAIN table["close"] :
        \/ get_shifted_series(table, cond.left_operand).value[j] = NaN
        \/ get_shifted_series(table, cond.right_operand).value[j] = NaN}

\* The conditions column the loop at epc accumulates into
LoopColumn == IF epc = "buy_loop" THEN "buy_conditions" ELSE "sell_conditions"
Evaluated == epc \in {"buy_loop", "sell_loop"} /\ condition # Unbound

\* C6: after a condition with any supported comparator has been evaluated,
\* the accumulated buy/sell conditions value is false at every bar where one
\* of its shifted operands is undefined.
C6_UndefinedIsFalse ==
    Evaluated => \A j \in UndefinedRows(df, condition) : df[LoopColumn][j] = FALSE

\* C7: for every bar j after the first, the signal is 1 exactly when the
\* conditions column is false at bar j-1 and true at bar j, so no two
\* consecutive bars carry a signal; on the buy and on the sell side.
C7_EdgeTrigger ==
    epc = "done" =>
        \A side \in {"buy", "sell"} :
            LET c == df[side \o "_conditions"]
                s == df[side \o "_signal"]
            IN /\ \A j \in DOMAIN c \ {1} :
                     s[j] = (IF ~c[j - 1] /\ c[j] THEN 1 ELSE 0)
               /\ \A j \in DOMAIN c \ {1} : ~(s[j - 1] = 1 /\ s[j] = 1)

\* C7 witness: the conditions [F,T,T,T,F,T] gave the signals [0,1,0,0,0,1]
\* on both sides.
C7_Witness ==
    /\ epc = "done"
    /\ df["buy_conditions"] = <<FALSE, TRUE, TRUE, TRUE, FALSE, TRUE>>
    /\ df["buy_signal"] = <<0, 1, 0, 0, 0, 1>>
    /\ df["sell_conditions"] = <<FALSE, TRUE, TRUE, TRUE, FALSE, TRUE>>
    /\ df["sell_signal"] = <<0, 1, 0, 0, 0, 1>>

\* C8: the signal on the first bar is 0 whatever the conditions value on
\* that bar, on both sides.
C8_FirstBarNoSignal ==
    epc = "done" => df["buy_signal"][1] = 0 /\ df["sell_signal"][1] = 0

\* C8 witness: the conditions are true on the first bar on both sides and the
\* first bar carries no signal.
C8_Witness ==
    /\ epc = "done"
    /\ df["buy_conditions"][1] = TRUE /\ df["sell_conditions"][1] = TRUE
    /\ df["buy_signal"][1] = 0 /\ df["sell_signal"][1] = 0

-----------------------------------------------------------------------------
(* Properties of optimize() *)

\* C9: the 'params' field of every result returned by
\* run_backtest_with_params equals the combination that was passed in, also
\* when the combination has indicator-bound keys.
C9_ParamsAreCombination ==
    \A j \in DOMAIN outcome :
        (outcome[j] # << >> /\ outcome[j][1].ok)
            => DictEq(outcome[j][1].value.params, all_combinations[j])

Rows_of(j) == {r \in DOMAIN origin : origin[r] = j}
Failed == {j \in DOMAIN outcome : outcome[j] # << >> /\ ~outcome[j][1].ok}

\* What holds of the rows at every moment of a sweep, and of the table once
\* it is returned
RowsOfRunsThatDidNotFail ==
    /\ Len(results) <= Len(all_combinations)
    /\ \A j \in Failed : Rows_of(j) = {}
    /\ opc = "returned" =>
          /\ \A j \in DOMAIN all_combinations : outcome[j] # << >>
          /\ errors = Failed
          /\ \A j \in DOMAIN all_combinations \ Failed :
                /\ Cardinality(Rows_of(j)) = 1
                /\ \A r \in Rows_of(j) : results[r] = outcome[j][1].value
          /\ Len(results_flat_df) = Len(all_combinations) - Cardinality(Failed)
          /\ Len(results_flat_df) = Len(results)

\* C10: in sequential and in parallel mode the sweep never holds more rows
\* than combinations and never a row of a failed run; it returns in the end;
\* and when it has returned every combination was run, every failed one gave
\* no row, every other one exactly one row (the result of its run), and the
\* table returned has as many rows as there are combinations minus failed
\* ones.
C10_FailuresAreSkipped ==
    []RowsOfRunsThatDidNotFail /\ <>(opc = "returned")

\* C10 witness: a parallel sweep of four combinations returned two rows; the
\* first future yielded was a failed one, and the rows are those of the two
\* combinations that did not fail.
C10_Witness ==
    /\ opc = "returned"
    /\ use_parallel
    /\ Len(all_combinations) = 4
    /\ Failed = {1, 2}
    /\ origin = <<4, 3>>
    /\ Len(results_flat_df) = 2

\* C10 witness of the sequential branch: the first of two combinations
\* failed and the second one gave the only row.
C10_WitnessSequential ==
    /\ opc = "returned"
    /\ ~use_parallel
    /\ Len(all_combinations) = 2
    /\ Failed = {1}
    /\ origin = <<2>>
    /\ Len(results_flat_df) = 1

\* The rows of the runs that did not fail, in combination generation order
RECURSIVE RowsInGenerationOrder(_)
RowsInGenerationOrder(j) ==
    IF j = 0 THEN << >>
    ELSE RowsInGenerationOrder(j - 1) \o
         (IF j \in Failed THEN << >> ELSE <<outcome[j][1].value>>)

\* C11: in the table optimize() returns, rows with equal profit factor are
\* in combination generation order, so the table is the one ranking with
\* generation order as secondary key, whatever order the workers completed in.
C11_TiesInGenerationOrder ==
    opc = "returned" =>
        results_flat_df = sort_values_profit_factor(
            flat_results(RowsInGenerationOrder(Len(all_combinations))))

\* C12: the table optimize() returns descends by metric_profit_factor: each
\* row's profit factor is >= the next row's, +infinity above every finite
\* value.
C12_SortedDescending ==
    opc = "returned" =>
        \A x \in 1..(Len(results_flat_df) - 1) :
            LET a == results_flat_df[x].metric.profit_factor
                b == results_flat_df[x + 1].metric.profit_factor
            IN /\ a[1] * b[2] >= b[1] * a[2]
               /\ b = Inf => a = Inf

\* C12 witness: the rows were collected in ascending order of profit factor
\* (0, then 5/4, then +infinity) and are returned with +infinity first.
C12_Witness ==
    /\ opc = "returned"
    /\ Len(results) = 3
    /\ results[1].performance.profit_factor = Ratio(0, 1)
    /\ results[2].performance.profit_factor = Ratio(5, 4)
    /\ results[3].performance.profit_factor = Inf
    /\ results_flat_df[1].metric.profit_factor = Inf
    /\ results_flat_df[3].metric.profit_factor = Ratio(0, 1)

\* C13: no step of a sweep, sequential or parallel, changes the bar table
\* (its rows and its columns) or the condition templates passed to
\* optimize(), so every run starts from the base as it was passed.
C13_BaseUnchanged == [][base' = base]_vars

\* C13 witness: a sequential sweep returned the rows of at least two runs
\* that added indicator, conditions and signal columns to their table and
\* put SMA_5 for SMA_1_LENGTH in their conditions; the base table has none
\* of these columns and the templates still name SMA_1_LENGTH.
C13_Witness ==
    /\ opc = "returned"
    /\ ~use_parallel
    /\ Len(results) >= 2
    /\ base.buy_conditions # << >>
    /\ base.buy_conditions[1].right_operand.column = "SMA_1_LENGTH"
    /\ DOMAIN base.df \cap {"SMA_5", "buy_conditions", "buy_signal"} = {}

\* C13 witness without indicators: two runs of a sequential sweep evaluated
\* a condition in place on their copy of the table.
C13_WitnessInPlace ==
    /\ opc = "returned"
    /\ ~use_parallel
    /\ Len(results) = 2
    /\ param_ranges[1][1] = <<"tp">>
    /\ base.buy_conditions # << >>
    /\ "buy_conditions" \notin DOMAIN base.df

-----------------------------------------------------------------------------
(* Properties of generate_parameter_combinations *)

RECURSIVE ProductOfLengths(_)
ProductOfLengths(ranges) ==
    IF ranges = << >> THEN 1
    ELSE Len(Head(ranges)[2]) * ProductOfLengths(Tail(ranges))

\* The number of combinations over the keys after position p
Stride(p) == ProductOfLengths(SubSeq(param_ranges, p + 1, Len(param_ranges)))

\* C14: generate_parameter_combinations returns the Cartesian product of the
\* value lists: as many combinations as the product of the list lengths,
\* each one giving every grid key, in key order, one of its candidate values,
\* emitted with the last key varying fastest (combination number x takes, for
\* the key at position p, the candidate number (x div Stride(p)) mod its list
\* length), and no combination twice when the candidates of each key differ.
C14_CartesianProduct ==
    opc = "generated" =>
        /\ Len(all_combinations) = ProductOfLengths(param_ranges)
        /\ \A x \in DOMAIN all_combinations :
              /\ DOMAIN all_combinations[x] = DOMAIN param_ranges
              /\ \A p \in DOMAIN param_ranges :
                    LET values == param_ranges[p][2]
                    IN /\ all_combinations[x][p][1] = param_ranges[p][1]
                       /\ all_combinations[x][p][2] \in Range(values)
                       /\ all_combinations[x][p][2] =
                              values[(((x - 1) \div Stride(p)) % Len(values)) + 1]
        /\ (\A p \in DOMAIN param_ranges :
               Cardinality(Range(param_ranges[p][2])) = Len(param_ranges[p][2]))
              => \A x, y \in DOMAIN all_combinations :
                     x # y => all_combinations[x] # all_combinations[y]

\* C14 witness: the grid {tp: [1, 2], sl: [1]} gave exactly the two
\* combinations {tp: 1, sl: 1} and {tp: 2, sl: 1}, in this order.
C14_Witness ==
    /\ opc = "generated"
    /\ param_ranges = << <<<<"tp">>, <<1, 2>>>>, <<<<"sl">>, <<1>>>> >>
    /\ all_combinations = << << <<<<"tp">>, 1>>, <<<<"sl">>, 1>> >>,
                             << <<<<"tp">>, 2>>, <<<<"sl">>, 1>> >> >>

\* C14 witness of the order: with two candidates for each of two keys the
\* last key varies fastest.
C14_WitnessOrder ==
    /\ opc = "generated"
    /\ param_ranges = << <<<<"tp">>, <<1, 2>>>>, <<<<"sl">>, <<2, 1>>>> >>
    /\ all_combinations = << << <<<<"tp">>, 1>>, <<<<"sl">>, 2>> >>,
                             << <<<<"tp">>, 1>>, <<<<"sl">>, 1>> >>,
                             << <<<<"tp">>, 2>>, <<<<"sl">>, 2>> >>,
                             << <<<<"tp">>, 2>>, <<<<"sl">>, 1>> >> >>

-----------------------------------------------------------------------------
\* A row written by process_exit_signal at a stop-loss or take-profit hit.
ClosedByHit(t) ==
    \/ t.exit_price = t.sl_target /\ t.perc_chg = (-1 * sl) \div 100
    \/ t.exit_price = t.tp_target /\ t.perc_chg = tp \div 100

\* The trade a side holds open is not a row of the table.
OpenNotReported(in_pos, cur) ==
    in_pos => \A k \in 1..Len(trades) :
                  ~(trades[k].side = cur.side /\ trades[k].entry_time = cur.entry_time)

\* C15: a position still open when the bar loop ends is not reported: the
\* returned table holds exactly the trades closed during the loop, each closed
\* at its stop-loss or take-profit on a bar of index <= n-2 (the last bar the
\* loop processed), and no row for a trade a side still holds; when no trade
\* was closed the table is the one-row placeholder that stands for "no trades".
C15_OpenPositionDiscarded ==
    pc = "returned" =>
        LET closed == buy_trades \o sell_trades
        IN IF closed = << >>
           THEN trades = create_empty_result
           ELSE /\ Len(trades) = Len(closed)
                /\ i <= n - 2
                /\ \A k \in 1..Len(trades) :
                     /\ trades[k] \in Range(closed)
                     /\ ClosedByHit(trades[k])
                     /\ trades[k].exit_time <= row.name
                /\ OpenNotReported(in_buy_position, current_buy_trade)
                /\ OpenNotReported(in_sell_position, current_sell_trade)

\* C15 witness: the loop ended with a long still open, opened after an earlier
\* trade was closed, and the returned table holds closed trades only.
C15_Witness ==
    /\ pc = "returned"
    /\ in_buy_position
    /\ Len(buy_trades) >= 1
    /\ Len(trades) = Len(buy_trades \o sell_trades)
    /\ \A k \in 1..Len(trades) : trades[k].entry_time < current_buy_trade.entry_time

\* C15 witness of the discarded only trade: a position was opened, never
\* closed, and the table returned is the placeholder.
C15_WitnessOnlyOpen ==
    /\ pc = "returned"
    /\ ~no_signals
    /\ in_sell_position
    /\ buy_trades \o sell_trades = << >>
    /\ trades = create_empty_result

-----------------------------------------------------------------------------
(* Properties of calculate_performance_summary *)

\* The pnl percentage of row k of the table of the call
Pnl(k) ==
    IF "perc_chg" \in DOMAIN trades_arg[k]
    THEN trades_arg[k].perc_chg ELSE trades_arg[k].pnl_perc
Winners == {k \in DOMAIN trades_arg : Pnl(k) > 0}
Losers == {k \in DOMAIN trades_arg : Pnl(k) < 0}

\* C16: profit_factor is +infinity when the table has no losing trade and at
\* least one winning trade, 0 when it has no trade at all, and never
\* +infinity when it has no winning trade.
C16_ProfitFactorInfinity ==
    spc = "returned" =>
        /\ (Losers = {} /\ Winners # {}) => summary.value.profit_factor = Inf
        /\ trades_arg = << >> => summary.value.profit_factor = Ratio(0, 1)
        /\ Winners = {} => summary.value.profit_factor # Inf

RECURSIVE SumAbs(_)
SumAbs(S) ==
    IF S = {} THEN 0
    ELSE LET k == CHOOSE x \in S : TRUE
         IN Abs(Pnl(k)) + SumAbs(S \ {k})

PnlList == [k \in DOMAIN trades_arg |-> Pnl(k)]

\* C17: for a table with at least one losing trade, profit_factor is the sum
\* of the positive pnl percentages divided by the sum of the absolute values
\* of the non-positive ones; [0.02, -0.01, 0.03, -0.02] gives 0.05 / 0.03.
C17_ProfitFactorRatio ==
    (spc = "returned" /\ Losers # {}) =>
        LET profit == SumAbs(Winners)
            loss == SumAbs(DOMAIN trades_arg \ Winners)
            pf == summary.value.profit_factor
        IN /\ pf[2] # 0
           /\ pf[1] * loss = pf[2] * profit
           /\ PnlList = <<2, -1, 3, -2>> => pf = <<5, 3>>

\* C17 witness: the table of the example was summarised, with the profit
\* factor 5/3.
C17_Witness ==
    /\ spc = "returned"
    /\ PnlList = <<2, -1, 3, -2>>
    /\ summary.value.profit_factor = <<5, 3>>

\* The balance after trade k from the balance before it, by the steps of the
\* statement: position size = balance * risk, pnl amount = position size *
\* pnl percentage (of risk and pnl in hundredths, hence one more digit of
\* scale), added to the balance.
BalanceStep(before, k) ==
    Only({IF Pnl(k) >= 0 THEN DecAdd(before, pnl_amount)
                         ELSE DecSub(before, pnl_amount) :
          pnl_amount \in {Normal(MulDigits(before.digits,
                                           risk_arg * Abs(Pnl(k)), 0),
                                 before.scale + 1)}})

\* The initial balance followed by the balances after trades 1..k
RECURSIVE BalanceTrail(_)
BalanceTrail(k) ==
    IF k = 0 THEN <<Dec(balance_arg)>>
    ELSE Only({Append(trail, BalanceStep(Last(trail), k)) :
               trail \in {BalanceTrail(k - 1)}})

BalanceAfter(k) == Last(BalanceTrail(k))

\* C18: the balance is compounded trade by trade in table order, each trade
\* adding (balance * risk_per_trade) * pnl_percent to the balance the trades
\* before it left; final_balance is the balance after the last trade.
C18_CompoundedBalance ==
    spc = "returned" =>
        summary.value.final_balance = BalanceAfter(Len(trades_arg))

\* C18 witness: of three trades the first two won and the last lost, at half
\* the balance at risk; 10000 became 10000 * 1.01 * 1.015 * 0.99 = 10148.985.
C18_Witness ==
    /\ spc = "returned"
    /\ risk_arg = 50
    /\ PnlList = <<2, 3, -2>>
    /\ summary.value.final_balance = [digits |-> <<9850, 148, 1>>, scale |-> 1]

\* The running peak once trade k is done: the greatest of the initial balance
\* and the balances after the trades up to k
Peak(trail, k) ==
    CHOOSE x \in {trail[j] : j \in 1..(k + 1)} :
        \A j \in 1..(k + 1) : DecCmp(trail[j], x) <= 0

\* (running peak - balance after trade k) / running peak * 100
DrawdownPercent(trail, k) ==
    Only({FracTimes(Quot(DecSub(peak, trail[k + 1]), peak), 100) :
          peak \in {Peak(trail, k)}})

\* C19: max_drawdown_percent is the greatest, over the trades in order, of
\* (running peak - balance after the trade) / running peak * 100, the peak
\* starting at initial_balance and taking the trade's own balance in before
\* the drawdown is measured; it is 0 when no balance falls below the peak.
C19_MaxDrawdown ==
    spc = "returned" =>
        \A trail \in {BalanceTrail(Len(trades_arg))} :
            \A drawdowns \in {[k \in 1..Len(trades_arg) |->
                                  DrawdownPercent(trail, k)]} :
                LET mdd == summary.value.max_drawdown_percent
                    rows == 1..Len(trades_arg)
                IN /\ \A k \in rows : FracCmp(drawdowns[k], mdd) <= 0
                   /\ rows # {} => \E k \in rows : FracCmp(drawdowns[k], mdd) = 0
                   /\ (\A k \in rows : trail[k + 1] = Peak(trail, k)) => mdd = Zero

\* C19 witness: a win raised the peak, the loss after it took 1 percent off
\* that peak and left the balance above the initial one; the drawdown is 1.
C19_Witness ==
    /\ spc = "returned"
    /\ risk_arg = 50
    /\ PnlList = <<3, -2>>
    /\ DecCmp(BalanceAfter(2), Dec(balance_arg)) > 0
    /\ FracCmp(summary.value.max_drawdown_percent, << <<1>>, <<1>> >>) = 0

\* C20: on an empty trade table calculate_performance_summary raises nothing
\* and returns total_trades 0, win_rate 0, profit_factor 0, final_balance =
\* initial_balance, max_drawdown_percent 0 and "0 secs" for both durations.
C20_EmptyTableSummary ==
    (spc \in {"returned", "raised"} /\ trades_arg = << >>) =>
        /\ summary.ok
        /\ summary.value.total_trades = 0
        /\ summary.value.win_rate = Ratio(0, 1)
        /\ summary.value.profit_factor = Ratio(0, 1)
        /\ summary.value.final_balance = Dec(balance_arg)
        /\ summary.value.max_drawdown_percent = Zero
        /\ summary.value.avg_trade_duration = "0 secs"
        /\ summary.value.total_strategy_duration = "0 secs"
        /\ DOMAIN summary.value =
               {"total_trades", "win_rate", "profit_factor", "final_balance",
                "max_drawdown_percent", "avg_trade_duration",
                "total_strategy_duration"}

\* C20 witness: the call on the empty table has returned, with the balance
\* 500 it was given.
C20_Witness ==
    /\ spc = "returned"
    /\ trades_arg = << >>
    /\ balance_arg = 500
    /\ summary.value.final_balance = Dec(500)

-----------------------------------------------------------------------------
(* Further properties of the condition evaluator *)

\* A step of one of the two loops that evaluates a condition
ConditionStep ==
    /\ epc \in {"buy_loop", "sell_loop"}
    /\ (num_buy' # num_buy \/ num_sell' # num_sell)

UnknownColumn(cond) ==
    \/ cond.left_operand.column \notin DOMAIN df
    \/ cond.right_operand.column \notin DOMAIN df
InvalidComparator(cond) == cond.comparator \notin Operators

SignalColumns == {"buy_signal", "sell_signal"}

\* C21: a loop that reaches a condition naming a column the table lacks, or a
\* comparator outside >, <, >=, <=, ==, !=, raises an error, and once a list
\* has raised nothing more runs: the table gets no signal column.
C21_BadConditionRaises ==
    [][ /\ (ConditionStep /\ (UnknownColumn(condition') \/ InvalidComparator(condition')))
            => /\ epc' = "raised"
               /\ eval_error' \in {ColumnError, ComparatorError}
               /\ InvalidComparator(condition') => eval_error' = ComparatorError
               /\ ~InvalidComparator(condition') => eval_error' = ColumnError
        /\ epc' = "raised" => DOMAIN df' \cap SignalColumns = {}
        /\ epc = "raised" => (epc' = "raised" /\ df' = df) ]_vars

\* C21 witness: the sell loop raised on a column the table lacks, after the
\* buy loop had run through its conditions.
C21_Witness ==
    /\ epc = "raised"
    /\ eval_error = ColumnError
    /\ condition.left_operand.column = "volume_ma"
    /\ "sell_conditions" \in DOMAIN df

\* C21 witness of the comparator: the buy loop raised on "=>".
C21_WitnessComparator ==
    /\ epc = "raised"
    /\ eval_error = ComparatorError
    /\ condition.comparator = "=>"
    /\ "sell_conditions" \notin DOMAIN df

\* The column a call on the table of this state accumulates for a list
Accumulated(list) ==
    apply_conditions(init_conditions(cond_table, cond_name),
                     cond_name, list).table[cond_name]

\* What one condition alone evaluates to on the table of this state: its
\* comparison of the two shifted operands, undefined read as false
ResultOf(cond) ==
    fillna_false([j \in DOMAIN cond_table["close"] |->
        compare(cond.comparator,
                shift(cond_table[cond.left_operand.column], cond.left_operand.shift)[j],
                shift(cond_table[cond.right_operand.column], cond.right_operand.shift)[j])])

Permuted(list, p) == [x \in DOMAIN list |-> list[p[x]]]

\* C22: a call that starts from a table without the conditions column and
\* returns leaves the AND of the results of its conditions: the column of k
\* conditions is the column of the first k-1 AND-ed with the result of the
\* k-th, and every permutation of the list gives the same column.
C22_AndFold ==
    [][ (fpc = "call" /\ fpc' = "returned" /\ cond_name \notin DOMAIN cond_table) =>
          LET k == Len(cond_list)
              column == cond_table'[cond_name]
          IN /\ k = 0 => \A j \in DOMAIN column : column[j] = TRUE
             /\ k > 0 =>
                  column = [j \in DOMAIN column |->
                               Accumulated(SubSeq(cond_list, 1, k - 1))[j]
                               /\ ResultOf(cond_list[k])[j]]
             /\ \A p \in Permutations(1..k) :
                  Accumulated(Permuted(cond_list, p)) = column ]_vars

\* C22 witness: a call returned the AND of the results of its two conditions,
\* each of which is false on a row where the other is true.
C22_Witness ==
    /\ fpc = "returned"
    /\ Len(cond_list) = 2
    /\ cond_table[cond_name] =
           [j \in DOMAIN cond_table["close"] |->
               ResultOf(cond_list[1])[j] /\ ResultOf(cond_list[2])[j]]
    /\ cond_table[cond_name] # ResultOf(cond_list[1])
    /\ cond_table[cond_name] # ResultOf(cond_list[2])

-----------------------------------------------------------------------------
(* Further properties of backtest() *)

\* What every trade opened at the bar in `row` carries
OpenedAtRow(t) ==
    /\ t.entry_price = row.entry_price
    /\ t.entry_time = next_name
    /\ t.entry_time > row.name
    /\ t.sl_distance = Abs(t.entry_price - t.sl_price)

\* C23: a trade opened on the signal of bar i has bar i's entry_price and the
\* timestamp of bar i+1 as entry_time; with positive tp, sl and entry_price a
\* long has sl_price < entry_price < tp_price, a short has tp_price <
\* entry_price < sl_price, and sl_distance = |entry_price - sl_price|.
C23_EntryFields ==
    [][ /\ (pc = "buy_entry" /\ ~in_buy_position /\ in_buy_position') =>
             /\ row.buy_signal = 1
             /\ OpenedAtRow(current_buy_trade')
             /\ current_buy_trade'.side = "long"
             /\ (tp > 0 /\ sl > 0 /\ row.entry_price > 0) =>
                   /\ current_buy_trade'.sl_price < current_buy_trade'.entry_price
                   /\ current_buy_trade'.entry_price < current_buy_trade'.tp_price
        /\ (pc = "sell_entry" /\ ~in_sell_position /\ in_sell_position') =>
             /\ row.sell_signal = 1
             /\ OpenedAtRow(current_sell_trade')
             /\ current_sell_trade'.side = "short"
             /\ (tp > 0 /\ sl > 0 /\ row.entry_price > 0) =>
                   /\ current_sell_trade'.tp_price < current_sell_trade'.entry_price
                   /\ current_sell_trade'.entry_price < current_sell_trade'.sl_price
      ]_vars

\* C23 witness: bar i opened a long and a short at 100 with tp 5 and sl 4;
\* both carry the timestamp of bar i+1, the long has its stop at 96 and its
\* target at 105, the short its target at 95 and its stop at 104.
C23_Witness ==
    /\ pc = "for"
    /\ in_buy_position /\ in_sell_position
    /\ current_buy_trade.entry_time = next_name
    /\ current_sell_trade.entry_time = next_name
    /\ current_buy_trade.sl_price = 9600 /\ current_buy_trade.tp_price = 10500
    /\ current_sell_trade.tp_price = 9500 /\ current_sell_trade.sl_price = 10400
    /\ current_buy_trade.sl_distance = 400 /\ current_sell_trade.sl_distance = 400

\* C24: every closed trade has exit_price equal to its tp_target or to its
\* sl_target, with the pnl percentage +tp/100 when closed at tp_target and
\* -sl/100 when closed at sl_target, long or short.
C24_ExitPnl ==
    (pc = "returned" /\ trades # create_empty_result) =>
        \A k \in DOMAIN trades :
            /\ trades[k].exit_price \in {trades[k].tp_target, trades[k].sl_target}
            /\ trades[k].exit_price = trades[k].tp_target =>
                   trades[k].perc_chg = tp \div 100
            /\ trades[k].exit_price = trades[k].sl_target =>
                   trades[k].perc_chg = (-1 * sl) \div 100

C24_Witness ==
    /\ pc = "returned"
    /\ trades # create_empty_result
    /\ \E k \in DOMAIN trades :
           /\ trades[k].side = "long"
           /\ trades[k].exit_price = trades[k].tp_target
           /\ trades[k].perc_chg = 5
    /\ \E k \in DOMAIN trades :
           /\ trades[k].side = "short"
           /\ trades[k].exit_price = trades[k].sl_target
           /\ trades[k].perc_chg = -4

\* The number of rows of tbl equal to t
Occurrences(tbl, t) == Cardinality({k \in DOMAIN tbl : tbl[k] = t})

\* C25: when at least one trade closed, backtest() returns every closed long
\* and short trade exactly as often as it was closed, in ascending order of
\* entry_time.
C25_AllClosedTradesSorted ==
    (pc = "returned" /\ Len(buy_trades) + Len(sell_trades) > 0) =>
        /\ Len(trades) = Len(buy_trades) + Len(sell_trades)
        /\ \A t \in Range(buy_trades) \cup Range(sell_trades) \cup Range(trades) :
               Occurrences(trades, t) =
                   Occurrences(buy_trades, t) + Occurrences(sell_trades, t)
        /\ \A j, k \in DOMAIN trades :
               j < k => trades[j].entry_time <= trades[k].entry_time

\* A short entered before the first long closes, two long trades close.
C25_Witness ==
    /\ pc = "returned"
    /\ Len(buy_trades) = 2
    /\ Len(sell_trades) = 1
    /\ sell_trades[1].entry_time < buy_trades[2].entry_time
    /\ Len(trades) = 3

(* Properties of backtest() on whole tables *)

\* The closed trades of one side in a table backtest() returned
ClosedOn(side, table) ==
    SelectSeq(table, LAMBDA t : "side" \in DOMAIN t /\ t.side = side)

Column(rows, column) == [j \in DOMAIN rows |-> rows[j][column]]

\* C26: for any bar table, tp and sl, the closed long trades of backtest() do
\* not change when the sell signals are changed, and the closed short trades do
\* not change when the buy signals are changed.
C26_SidesIndependent ==
    rpc = "done" =>
        /\ Column(replay.df, "buy_signal") = Column(request.df, "buy_signal") =>
               ClosedOn("long", responses[2]) = ClosedOn("long", responses[1])
        /\ Column(replay.df, "sell_signal") = Column(request.df, "sell_signal") =>
               ClosedOn("short", responses[2]) = ClosedOn("short", responses[1])

\* The changed sell signals open a short while the long is open; both close.
C26_Witness ==
    /\ rpc = "done"
    /\ Column(replay.df, "buy_signal") = Column(request.df, "buy_signal")
    /\ Len(ClosedOn("long", responses[1])) = 1
    /\ ClosedOn("short", responses[1]) = << >>
    /\ Len(ClosedOn("short", responses[2])) = 1
    /\ ClosedOn("short", responses[2])[1].entry_time =
           ClosedOn("long", responses[1])[1].entry_time

C28_ResampledFirst ==
    (rpc = "done" /\ Frequency \in Keys(request.params)) =>
        responses[1] =
            run_on(get_entry_price(resample_df(request.df,
                                               Get(request.params, Frequency))),
                   request.params, request.buy_conditions, request.sell_conditions)

(* Properties of the grid *)

InstanceName(k) == IF k = 1 THEN "1" ELSE "2"

\* The grid with every nested value spelled out under keys of its own:
\* <name>_<instance>_<param> for a list of objects, <name>_<param> for a
\* single mapping
Expanded(ranges) ==
    Concat([p \in DOMAIN ranges |->
        LET name == ranges[p][1]
            value == ranges[p][2]
        IN IF Tag(value) = "dict"
           THEN [x \in DOMAIN Items(value) |->
                    <<name \o <<Items(value)[x][1]>>, Items(Items(value)[x][2])>>]
           ELSE IF Items(value) # << >> /\ Tag(Items(value)[1]) = "dict"
           THEN Concat([k \in DOMAIN Items(value) |->
                    [x \in DOMAIN Items(Items(value)[k]) |->
                        <<name \o <<InstanceName(k), Items(Items(value)[k])[x][1]>>,
                          Items(Items(Items(value)[k])[x][2])>>]])
           ELSE <<<<name, Items(value)>>>>])

\* C29: the combinations are those of the grid with every list of objects
\* and every nested mapping expanded into individually keyed parameters, so
\* that every combination maps flat keys to scalars.
C29_NestedExpanded ==
    opc = "generated" =>
        /\ \A c \in Range(all_combinations) : \A item \in Range(c) :
               Tag(item[2]) = "number"
        /\ all_combinations = generate_parameter_combinations(Expanded(param_ranges))

(* Further properties of optimize() *)

\* Every combination's run has produced a result or raised, and optimize()
\* has taken it up
AllCollected ==
    /\ \A j \in DOMAIN all_combinations : outcome[j] # << >>
    /\ Len(results) + Cardinality(errors) = Len(all_combinations)

\* C30: if every run eventually terminates the sweep eventually completes;
\* the ranking is computed only after all runs have been collected, so a run
\* that never terminates keeps the sweep from completing.
C30_CompletesAfterAllRuns ==
    /\ <>(opc = "returned")
    /\ [](opc \in {"flatten", "returned"} => AllCollected)

C30_Witness ==
    /\ opc = "returned"
    /\ use_parallel
    /\ Len(all_combinations) >= 2
    /\ errors # {}
    /\ results # << >>
    /\ AllCollected

-----------------------------------------------------------------------------
(* Properties of the bar loop on a whole table *)

AnySignal(rows) == \E k \in DOMAIN rows : rows[k].buy_signal > 0 \/ rows[k].sell_signal > 0
UpTo(last) == [k \in 1..(last + 1) |-> k - 1]

\* C31: backtest() runs its loop body on the bar indexes 0, 1, ..., n-2 in
\* ascending order, once each, and never on the last bar n-1: while the loop
\* runs the indexes examined so far are 0..i with i <= n-2, at the return they
\* are exactly 0..n-2, and no row of the returned table was closed on the last
\* bar, whatever its high and low.
C31_BarsExaminedInOrder ==
    /\ rpc = "for" =>
         /\ replay.i <= Len(request.df) - 2
         /\ replay.examined = UpTo(replay.i)
    /\ (rpc = "returned" /\ AnySignal(request.df)) =>
         replay.examined = UpTo(Len(request.df) - 2)
    /\ rpc = "returned" =>
         \A k \in DOMAIN responses[1] :
             responses[1][k].exit_time # Last(request.df).name

\* C31 witness: a long opened on the first of three bars is still open at the
\* return although the low of the last bar is under its stop-loss price, and
\* nothing was closed.
C31_Witness ==
    /\ rpc = "returned"
    /\ Len(request.df) = 3
    /\ AnySignal(request.df)
    /\ replay.examined = <<0, 1>>
    /\ replay.locals.in_buy_position
    /\ replay.locals.current_buy_trade.entry_time = 2
    /\ Last(request.df).low < replay.locals.current_buy_trade.sl_price
    /\ responses[1] = create_empty_result

-----------------------------------------------------------------------------
(* Further properties of backtest(), continued *)

\* s is t or t with one more element at its end
SameOrOneMore(s, t) ==
    /\ Len(s) \in {Len(t), Len(t) + 1}
    /\ SubSeq(s, 1, Len(t)) = t

\* the record of cur closed at the bar in `row`
SealedFrom(t, cur) ==
    /\ t.entry_time = cur.entry_time
    /\ t.entry_price = cur.entry_price
    /\ t.side = cur.side
    /\ t.tp_target = cur.tp_price
    /\ t.sl_target = cur.sl_price
    /\ t.sl_distance = cur.sl_distance
    /\ t.exit_time = row.name
    /\ t.exit_price \in {cur.tp_price, cur.sl_price}

\* C32: the lists of closed trades only grow at their end: every step of
\* backtest() leaves the records already in buy_trades and sell_trades as they
\* are and in place, and a record it appends carries the open trade's entry
\* fields with the closing bar's time, the level hit and its pnl; the table
\* returned holds those records unchanged.
C32_ClosedTradesAppendOnly ==
    [][ /\ SameOrOneMore(buy_trades', buy_trades)
        /\ SameOrOneMore(sell_trades', sell_trades)
        /\ Len(buy_trades') > Len(buy_trades) =>
             /\ pc = "buy_exit" /\ in_buy_position
             /\ SealedFrom(Last(buy_trades'), current_buy_trade)
             /\ ClosedByHit(Last(buy_trades'))
        /\ Len(sell_trades') > Len(sell_trades) =>
             /\ pc = "sell_exit" /\ in_sell_position
             /\ SealedFrom(Last(sell_trades'), current_sell_trade)
             /\ ClosedByHit(Last(sell_trades'))
        /\ (pc = "combine" /\ buy_trades \o sell_trades # << >>) =>
             /\ Len(trades') = Len(buy_trades \o sell_trades)
             /\ Range(trades') = Range(buy_trades \o sell_trades) ]_vars

\* C32 witness: a second long has just been closed and the record of the
\* first, closed on an earlier bar, is still the first of the list.
C32_Witness ==
    /\ pc = "sell_exit"
    /\ Len(buy_trades) = 2
    /\ buy_trades[2].exit_time = row.name
    /\ buy_trades[1].exit_time < row.name
    /\ buy_trades[1].exit_time = buy_trades[2].entry_time - 1

-----------------------------------------------------------------------------
(* Further properties of calculate_performance_summary *)

\* C33: total_trades is the number of rows of the trade table, each row being
\* counted once as a win (pnl percentage > 0) or as a loss (pnl percentage
\* <= 0, the value 0 included), and win_rate is the number of rows with a
\* strictly positive pnl percentage over total_trades, times 100 (0 for the
\* table without rows).
C33_WinRate ==
    (spc = "returned" /\ summary.ok) =>
        /\ summary.value.total_trades = Len(trades_arg)
        /\ summary.value.win_rate =
             IF Len(trades_arg) = 0 THEN Ratio(0, 1)
             ELSE Ratio(Cardinality(Winners) * 100, Len(trades_arg))

\* C33 witness: a table of a winning trade, a trade of pnl 0 and a losing one
\* has a win rate of 100/3.
C33_Witness ==
    /\ spc = "returned" /\ summary.ok
    /\ Len(trades_arg) = 3
    /\ Cardinality(Winners) = 1
    /\ \E k \in DOMAIN trades_arg : Pnl(k) = 0
    /\ Losers # {}
    /\ summary.value.win_rate = <<100, 3>>

\* C34: the table backtest() returns always has rows: it is the one-row
\* placeholder of zeros when the table has no signal on either side, and also
\* when there were signals but the loop closed no trade; otherwise it holds
\* the closed trades, at least one, and no placeholder row.
C34_NeverEmptyTable ==
    rpc = "returned" =>
        /\ Len(responses[1]) >= 1
        /\ ~AnySignal(request.df) => responses[1] = create_empty_result
        /\ AnySignal(request.df) =>
             LET closed == replay.locals.buy_trades \o replay.locals.sell_trades
             IN IF closed = << >>
                THEN responses[1] = create_empty_result
                ELSE /\ Len(responses[1]) = Len(closed)
                     /\ \A k \in DOMAIN responses[1] :
                          /\ responses[1][k] \in Range(closed)
                          /\ responses[1][k].exit_time > 0

\* C34 witness: the only signal of the table is on its last bar, the loop ran
\* on the bar before it without opening anything, and the placeholder came
\* back.
C34_Witness ==
    /\ rpc = "returned"
    /\ Len(request.df) = 2
    /\ request.df[1].buy_signal = 0 /\ request.df[1].sell_signal = 0
    /\ request.df[2].sell_signal = 1
    /\ replay.examined = <<0>>
    /\ ~replay.locals.in_sell_position
    /\ responses[1] = create_empty_result

\* The locals of one side
LongSide(st) ==
    [in_position |-> st.in_buy_position, current |-> st.current_buy_trade,
     closed |-> st.buy_trades]
ShortSide(st) ==
    [in_position |-> st.in_sell_position, current |-> st.current_sell_trade,
     closed |-> st.sell_trades]

\* One side across one pass of the loop body on the bar r, from its locals b
\* before to its locals a after; hit says that r is beyond one of the held
\* trade's levels, signal is r's signal of the side.
SideAcrossBar(r, nxt, b, a, signal, hit) ==
    LET closed_here == Len(a.closed) > Len(b.closed)
        opened_here == a.in_position /\ (~b.in_position \/ closed_here)
    IN /\ closed_here =>
            /\ b.in_position
            /\ b.current.entry_time <= r.name
            /\ Last(a.closed).entry_time = b.current.entry_time
            /\ Last(a.closed).exit_time = r.name
       /\ b.in_position => (closed_here <=> hit)
       /\ (b.in_position /\ ~closed_here) =>
            (a.in_position /\ a.current = b.current)
       /\ opened_here <=> (signal = 1 /\ (~b.in_position \/ closed_here))
       /\ opened_here => (a.current.entry_time = nxt /\ nxt > r.name)

\* C35: a trade is exit-checked only on bars after the bar whose signal
\* opened it, the first time on the next bar (the bar whose time is its
\* entry_time), so the signal bar's own high and low never close it; and a
\* signal on a bar where the side still holds its trade after the exit check
\* changes nothing: the held trade stays as it is, and a trade is opened only
\* on a bar that carries the signal itself.
C35_NoExitOnSignalBar ==
    [][ (rpc = "for" /\ rpc' = "for") =>
          LET r == request.df[replay'.i + 1]
              nxt == request.df[replay'.i + 2].name
              b == replay.locals
              a == replay'.locals
          IN /\ SideAcrossBar(r, nxt, LongSide(b), LongSide(a), r.buy_signal,
                              b.in_buy_position /\
                                  (r.low < b.current_buy_trade.sl_price
                                   \/ r.high > b.current_buy_trade.tp_price))
             /\ SideAcrossBar(r, nxt, ShortSide(b), ShortSide(a), r.sell_signal,
                              b.in_sell_position /\
                                  (r.high > b.current_sell_trade.sl_price
                                   \/ r.low < b.current_sell_trade.tp_price)) ]_vars

\* C35 witness: the long opened on the first bar, whose own low is under the
\* stop-loss price, is still held after the second bar, which is quiet and
\* carries a buy signal of its own.
C35_Witness ==
    /\ rpc = "for"
    /\ replay.i = 1
    /\ request.df[1].buy_signal = 1
    /\ request.df[2].buy_signal = 1
    /\ replay.locals.in_buy_position
    /\ replay.locals.current_buy_trade.entry_time = request.df[2].name
    /\ request.df[1].low < replay.locals.current_buy_trade.sl_price
    /\ replay.locals.buy_trades = << >>

\* C36: the exit tests are strict.  An exit check of a held long closes it
\* exactly when the bar's low is under sl_price or its high is over tp_price,
\* and an exit check of a held short exactly when the bar's high is over
\* sl_price or its low is under tp_price; on any other bar, one that only
\* touches a level included, the trade is left open and unchanged and nothing
\* is appended.
C36_StrictExitTriggers ==
    [][ /\ (pc = "buy_exit" /\ in_buy_position) =>
             IF row.low < current_buy_trade.sl_price
                \/ row.high > current_buy_trade.tp_price
             THEN ~in_buy_position' /\ Len(buy_trades') = Len(buy_trades) + 1
             ELSE /\ in_buy_position'
                  /\ current_buy_trade' = current_buy_trade
                  /\ buy_trades' = buy_trades
        /\ (pc = "sell_exit" /\ in_sell_position) =>
             IF row.high > current_sell_trade.sl_price
                \/ row.low < current_sell_trade.tp_price
             THEN ~in_sell_position' /\ Len(sell_trades') = Len(sell_trades) + 1
             ELSE /\ in_sell_position'
                  /\ current_sell_trade' = current_sell_trade
                  /\ sell_trades' = sell_trades ]_vars

\* C36 witness: a short went through the exit check of a bar whose high is
\* its stop-loss price and whose low is its take-profit price, and is still
\* held.
C36_Witness ==
    /\ pc = "buy_entry"
    /\ in_sell_position
    /\ current_sell_trade.entry_time <= row.name
    /\ row.high = current_sell_trade.sl_price
    /\ row.low = current_sell_trade.tp_price
    /\ sell_trades = << >>

-----------------------------------------------------------------------------
(* Properties of the request handler, continued *)

\* the side whose list of conditions is `conditions` has no signal and no trade
NoSignalOnSide(conditions, side) ==
    conditions = << >> =>
        /\ side.conditions \in DOMAIN request.df
        /\ \A j \in DOMAIN request.df[side.conditions] :
               request.df[side.conditions][j] = TRUE
        /\ responses[1].ok =>
             /\ \A j \in DOMAIN request.df[side.signal] :
                    request.df[side.signal][j] = 0
             /\ ClosedOn(side.name, responses[1].value.trades) = << >>

\* C37: with an empty list of conditions for a side, the conditions column
\* the evaluator leaves on the request's table for that side is true on every
\* bar (for the buy side also when the sell list raises afterwards), the
\* side's signal column computed from it is 0 on every bar, and the trades
\* returned hold no trade of that side.
C37_EmptyListNoSignal ==
    rpc \in {"second", "done"} =>
        /\ NoSignalOnSide(request.buy_conditions,
                          [conditions |-> "buy_conditions", signal |-> "buy_signal",
                           name |-> "long"])
        /\ NoSignalOnSide(request.sell_conditions,
                          [conditions |-> "sell_conditions", signal |-> "sell_signal",
                           name |-> "short"])

\* C37 witness: a request without sell conditions on a table of five bars
\* whose buy side closed a trade.
C37_Witness ==
    /\ rpc = "second"
    /\ request.sell_conditions = << >>
    /\ responses[1].ok
    /\ Len(request.df["sell_conditions"]) = PipeBars - 1
    /\ ClosedOn("long", responses[1].value.trades) # << >>
    /\ \E j \in DOMAIN request.df["buy_signal"] : request.df["buy_signal"][j] = 1

-----------------------------------------------------------------------------
(* Properties of optimize() across its two modes *)

\* C38: called on the same grid, table and condition templates with
\* use_parallel true and with use_parallel false, optimize() returns tables
\* with the same rows the same number of times (the row of a combination
\* being its params and its metrics); the parallel branch is entered only
\* with use_parallel and more than one combination, so with at most one
\* combination both calls run sequentially and return the same table.
C38_ModesAgree ==
    /\ opc = "parallel" => (use_parallel /\ Len(all_combinations) > 1)
    /\ opc = "sequential" => (~use_parallel \/ Len(all_combinations) <= 1)
    /\ (rpc = "second" /\ opc = "returned") =>
         /\ Len(results_flat_df) = Len(replay)
         /\ \A t \in Range(results_flat_df) \cup Range(replay) :
                Occurrences(results_flat_df, t) = Occurrences(replay, t)
         /\ Len(all_combinations) <= 1 => results_flat_df = replay

\* C38 witness: the second call ran in parallel on three or more
\* combinations, one of which raised, collected two rows in an order other
\* than the order of generation, and returned.
C38_Witness ==
    /\ rpc = "second" /\ opc = "returned"
    /\ use_parallel
    /\ Len(all_combinations) >= 3
    /\ errors # {}
    /\ Len(results_flat_df) >= 2
    /\ origin[1] > origin[2]

-----------------------------------------------------------------------------
(* Further properties of apply_buy_conditions / apply_sell_conditions *)

\* A condition the loop raises on: its comparator is not one of the six, or
\* one of its operands names a column the table lacks
Raises(cond) ==
    \/ cond.comparator \notin Operators
    \/ cond.left_operand.column \notin DOMAIN cond_table
    \/ cond.right_operand.column \notin DOMAIN cond_table

\* C39: a call does not undo what it did when a condition raises.  When the
\* k-th condition is the first that raises, the caller's table is left with
\* the conditions column it had at the call (all true if it had none) AND-ed
\* with the results of the first k-1 conditions; a column the table already
\* carries is AND-ed into, not reset; the other columns are untouched, and
\* the call raises exactly when some condition of the list does.
C39_NoRollback ==
    [][ (fpc = "call" /\ fpc' # "call") =>
          LET start == IF cond_name \in DOMAIN cond_table
                       THEN cond_table[cond_name]
                       ELSE [j \in DOMAIN cond_table["close"] |-> TRUE]
              bad == {m \in DOMAIN cond_list : Raises(cond_list[m])}
              applied == IF bad = {} THEN Len(cond_list)
                         ELSE (CHOOSE m \in bad : \A x \in bad : m <= x) - 1
          IN /\ fpc' = "raised" <=> bad # {}
             /\ DOMAIN cond_table' = DOMAIN cond_table \cup {cond_name}
             /\ \A c \in DOMAIN cond_table \ {cond_name} :
                    cond_table'[c] = cond_table[c]
             /\ cond_table'[cond_name] =
                  [j \in DOMAIN start |->
                      start[j] /\ \A m \in 1..applied : ResultOf(cond_list[m])[j]] ]_vars

\* C39 witness: the second condition of a list raised on a table that came
\* with a conditions column; the column left is the one it came with AND-ed
\* with the result of the first condition, and differs from both.
C39_Witness ==
    /\ fpc = "raised"
    /\ Len(cond_list) = 2
    /\ ~Raises(cond_list[1]) /\ Raises(cond_list[2])
    /\ cond_table[cond_name] =
           [j \in DOMAIN cond_table["close"] |->
               Stale(Len(cond_table["close"]))[j] /\ ResultOf(cond_list[1])[j]]
    /\ cond_table[cond_name] # Stale(Len(cond_table["close"]))
    /\ cond_table[cond_name] # ResultOf(cond_list[1])

-----------------------------------------------------------------------------
(* Properties of the grouping of a combination's keys *)

\* The rule: the key has an underscore, and its second part is a number or
\* its first part is the name of an indicator
IndicatorBound(parts) ==
    Len(parts) > 1 /\ (parts[2] \in Digits \/ parts[1] \in IndicatorTypes)

\* The keys the indicator group holds, each put together again from the key
\* of its indicator and the name of the parameter, with its value
IndicatorItems(indicator_params) ==
    UNION {{<<indicator_params[x][1] \o it[1], it[2]>> :
               it \in Range(indicator_params[x][2].params)} :
           x \in DOMAIN indicator_params}

RECURSIVE CountParams(_)
CountParams(indicator_params) ==
    IF indicator_params = << >> THEN 0
    ELSE Len(Head(indicator_params)[2].params) + CountParams(Tail(indicator_params))

\* C40: every key of a combination lands, with its value, in exactly one of
\* the two groups: among the indicator parameters when it has an underscore
\* and its second part is all digits or its first part is one of sma, ema,
\* rsi, macd, vwap, bollinger, among the trading parameters otherwise (a key
\* without underscore always); tp and sl are the values of the trading
\* parameters tp and sl, and 1.0 each when the combination has no such key.
C40_KeysPartitioned ==
    rpc = "done" =>
        LET g == responses[1]
            bound == {it \in Range(request) : IndicatorBound(it[1])}
        IN /\ Range(g.trading_params) = Range(request) \ bound
           /\ Len(g.trading_params) = Cardinality(Range(request) \ bound)
           /\ IndicatorItems(g.indicator_params) = bound
           /\ CountParams(g.indicator_params) = Cardinality(bound)
           /\ g.tp = (IF <<"tp">> \in Keys(request) THEN Get(request, <<"tp">>) ELSE 100)
           /\ g.sl = (IF <<"sl">> \in Keys(request) THEN Get(request, <<"sl">>) ELSE 100)

\* C40 witness: tp_1 and foo_2_period went to the indicator parameters, sma to
\* the trading parameters, and tp and sl took their defaults.
C40_Witness ==
    /\ rpc = "done"
    /\ Keys(request) = {<<"tp", "1">>, <<"foo", "2", "period">>, <<"sma">>}
    /\ Keys(responses[1].trading_params) = {<<"sma">>}
    /\ Keys(responses[1].indicator_params) = {<<"tp", "1">>, <<"foo", "2">>}
    /\ responses[1].tp = 100 /\ responses[1].sl = 100

====
